---- MODULE Spec2Model ----
(***************************************************************************)
(* A model of the heuristic extraction engine of web_scraper.py.           *)
(*                                                                         *)
(* The page is the tree BeautifulSoup builds from the fetched bytes: a     *)
(* sequence of element nodes in document (pre-)order.  Each node carries   *)
(* its tag name, the index of its parent (0 is the document itself), its   *)
(* attributes (the set of <<name, value>> pairs present)                   *)
(* and the text node that is its first child ("" when it has none).        *)
(* Strings are TLA+ strings, handled character by character.               *)
(***************************************************************************)
EXTENDS Integers, Sequences, FiniteSets, TLC

VARIABLES
    page,   \* the parsed tree of the fetched page
    open,   \* the parser's stack of open elements (indices into page)
    read,   \* the number of markup fragments the parser has read
    url,    \* the URL the page was fetched from
    call,   \* the last extraction call: its name and arguments
    ret,    \* the value that call returned
    loc,    \* local variables of that call which the properties read
    view,   \* the tree that call obtained, and that tree as the call left it
    prev    \* the call before the last one: what it obtained and returned

vars == <<page, open, read, url, call, ret, loc, view, prev>>

(***************************************************************************)
(* Strings.                                                                *)
(***************************************************************************)
Char(s, i) == SubSeq(s, i, i)

StartsWith(s, p) == Len(p) <= Len(s) /\ SubSeq(s, 1, Len(p)) = p

EndsWith(s, p) == Len(p) <= Len(s) /\ SubSeq(s, Len(s) - Len(p) + 1, Len(s)) = p

\* Python's `k in s`.
Contains(s, k) ==
    Len(k) <= Len(s) /\ \E i \in 0..(Len(s) - Len(k)) : SubSeq(s, i + 1, i + Len(k)) = k

\* The least position of k in s, 0 when absent (str.find, 1-based).
Find(s, k) ==
    IF Contains(s, k)
    THEN CHOOSE i \in 1..(Len(s) - Len(k) + 1) :
            /\ SubSeq(s, i, i + Len(k) - 1) = k
            /\ \A j \in 1..(i - 1) : SubSeq(s, j, j + Len(k) - 1) # k
    ELSE 0

UpperChars == "ABCDEFGHIJKLMNOPQRSTUVWXYZ"
LowerChars == "abcdefghijklmnopqrstuvwxyz"

LowerChar(c) ==
    IF Contains(UpperChars, c) THEN Char(LowerChars, Find(UpperChars, c)) ELSE c

\* str.lower(): every character lowered; the string is lowered half by
\* half, which keeps the evaluation shallow on long texts.
RECURSIVE Lower(_)
Lower(s) ==
    IF s = "" THEN ""
    ELSE IF Len(s) = 1 THEN LowerChar(s)
    ELSE Lower(SubSeq(s, 1, Len(s) \div 2)) \o Lower(SubSeq(s, Len(s) \div 2 + 1, Len(s)))

IsSpace(c) == c \in {" ", "\t", "\n"}

RECURSIVE LStrip(_)
LStrip(s) == IF s # "" /\ IsSpace(Char(s, 1)) THEN LStrip(SubSeq(s, 2, Len(s))) ELSE s

RECURSIVE RStrip(_)
RStrip(s) ==
    IF s # "" /\ IsSpace(Char(s, Len(s))) THEN RStrip(SubSeq(s, 1, Len(s) - 1)) ELSE s

\* str.strip()
Strip(s) == RStrip(LStrip(s))

\* The length of the first whitespace-free run of s (s starts with a non-space).
RECURSIVE WordLen(_)
WordLen(s) ==
    IF s = "" \/ IsSpace(Char(s, 1)) THEN 0 ELSE 1 + WordLen(SubSeq(s, 2, Len(s)))

\* str.split(): the whitespace-separated words of s, in order: the
\* whitespace-free runs from the positions where one starts.
Split(s) ==
    LET starts == SelectSeq([i \in 1..Len(s) |-> i],
                            LAMBDA i : ~IsSpace(Char(s, i))
                                       /\ (i = 1 \/ IsSpace(Char(s, i - 1))))
    IN  SubSeq([k \in 1..Len(starts) |->
                   SubSeq(s, starts[k], starts[k] + WordLen(SubSeq(s, starts[k], Len(s))) - 1)],
               1, Len(starts))

\* sep.join(parts): the parts with sep between neighbours; the list is
\* joined half by half, which keeps the evaluation shallow on long lists.
RECURSIVE Join(_, _)
Join(sep, parts) ==
    IF parts = <<>> THEN ""
    ELSE IF Len(parts) = 1 THEN parts[1]
    ELSE Join(sep, SubSeq(parts, 1, Len(parts) \div 2)) \o sep
         \o Join(sep, SubSeq(parts, Len(parts) \div 2 + 1, Len(parts)))

\* `x in list`
InList(x, list) == \E i \in 1..Len(list) : list[i] = x

NoDup(list) == \A i, j \in 1..Len(list) : list[i] = list[j] => i = j

Range(list) == {list[i] : i \in 1..Len(list)}

(***************************************************************************)
(* The document tree.                                                      *)
(***************************************************************************)
HasAttr(n, a) == \E kv \in n.attrs : kv[1] = a

\* tag.get(a, default)
Get(n, a, default) ==
    IF HasAttr(n, a) THEN (CHOOSE kv \in n.attrs : kv[1] = a)[2] ELSE default

\* ' '.join(tag.get('class', [])): the class attribute is a list of words.
ClassText(n) == Join(" ", Split(Get(n, "class", "")))

\* d lies strictly below a (a = 0 is the document).
RECURSIVE IsDesc(_, _, _)
IsDesc(p, a, d) == d # 0 /\ (p[d].parent = a \/ IsDesc(p, a, p[d].parent))

\* A set of node indices as a sequence in document order.
RECURSIVE InOrder(_)
InOrder(S) ==
    IF S = {} THEN <<>>
    ELSE LET m == CHOOSE x \in S : \A y \in S : x <= y
         IN  <<m>> \o InOrder(S \ {m})

\* scope.find_all(tags): the descendants of scope with a tag of tags.
FindAll(p, scope, tags) ==
    InOrder({i \in 1..Len(p) : p[i].tag \in tags /\ IsDesc(p, scope, i)})

\* The stripped, non-empty strings of e and its descendants, in order.  The
\* code of a script or style element inside e is not among them: the parser
\* gives it a string class of its own, which get_text passes over.
Strings(p, e) ==
    LET idx == InOrder({i \in 1..Len(p) :
                           /\ i = e \/ (IsDesc(p, e, i) /\ p[i].tag \notin {"script", "style"})
                           /\ Strip(p[i].text) # ""})
    IN  [k \in 1..Len(idx) |-> Strip(p[idx[k]].text)]

\* tag.get_text(separator=sep, strip=True)
GetText(p, e, sep) == Join(sep, Strings(p, e))

\* tag.find_parent(tags): the nearest ancestor with a tag of tags, 0 if none.
RECURSIVE FindParent(_, _, _)
FindParent(p, e, tags) ==
    LET par == p[e].parent
    IN  IF par = 0 THEN 0
        ELSE IF p[par].tag \in tags THEN par
        ELSE FindParent(p, par, tags)

\* Tag.__eq__: equality by value (same name, attributes and contents).
Signature(p, e) ==
    LET idx == InOrder({i \in 1..Len(p) : i = e \/ IsDesc(p, e, i)})
    IN  [k \in 1..Len(idx) |->
            [tag |-> p[idx[k]].tag, attrs |-> p[idx[k]].attrs, text |-> p[idx[k]].text,
             up |-> IF idx[k] = e THEN 0 ELSE p[idx[k]].parent - e + 1]]

TagEq(p, a, b) ==
    a = b \/ (p[a].tag = p[b].tag /\ p[a].attrs = p[b].attrs /\ Signature(p, a) = Signature(p, b))

\* for s in soup(["script", "style"]): s.decompose()
Decompose(p) ==
    LET Gone(i) == p[i].tag \in {"script", "style"}
                   \/ \E a \in 1..Len(p) : p[a].tag \in {"script", "style"} /\ IsDesc(p, a, i)
        idx == InOrder({i \in 1..Len(p) : ~Gone(i)})
        New(i) == IF i = 0 THEN 0 ELSE CHOOSE k \in 1..Len(idx) : idx[k] = i
    IN  [k \in 1..Len(idx) |-> [p[idx[k]] EXCEPT !.parent = New(p[idx[k]].parent)]]

(***************************************************************************)
(* URLs.                                                                   *)
(***************************************************************************)
SchemeChars == "abcdefghijklmnopqrstuvwxyzABCDEFGHIJKLMNOPQRSTUVWXYZ0123456789+-."

\* The scheme of u as urllib.parse reads it ("" when u has none): the
\* characters before the first ':' when they are all scheme characters.
Scheme(u) ==
    LET c == Find(u, ":")
    IN  IF c > 1 /\ \A i \in 1..(c - 1) : Contains(SchemeChars, Char(u, i))
        THEN Lower(SubSeq(u, 1, c - 1))
        ELSE ""

\* urllib.parse.uses_relative, as far as the pages' URLs go.
UsesRelative == {"http", "https", "ftp", "file"}

\* scheme://netloc of an absolute base URL.
Origin(base) ==
    LET rest == SubSeq(base, Find(base, "://") + 3, Len(base))
        slash == Find(rest, "/")
    IN  IF slash = 0 THEN base
        ELSE SubSeq(base, 1, Find(base, "://") + 2 + slash - 1)

\* The position of the last '/' of s (0 when none).
LastSlash(s) ==
    IF Contains(s, "/")
    THEN CHOOSE i \in 1..Len(s) :
            Char(s, i) = "/" /\ \A j \in (i + 1)..Len(s) : Char(s, j) # "/"
    ELSE 0

\* The base URL without its fragment, and without its query.
NoFragment(base) ==
    IF Contains(base, "#") THEN SubSeq(base, 1, Find(base, "#") - 1) ELSE base
NoQuery(base) ==
    LET b == NoFragment(base)
    IN  IF Contains(b, "?") THEN SubSeq(b, 1, Find(b, "?") - 1) ELSE b

\* The base URL up to and including the last '/' of its path.
BaseDir(base) ==
    LET b == NoQuery(base)
        path == SubSeq(b, Len(Origin(b)) + 1, Len(b))
    IN  IF path = "" THEN Origin(b) \o "/"
        ELSE Origin(b) \o SubSeq(path, 1, LastSlash(path))

\* A join that resolves nothing: the reference as it is.
UrlJoinVerbatim(base, u) == u

\* urllib.parse.urljoin(base, u) for an absolute http(s) base and a
\* reference u without dot segments: a reference with a scheme of its own
\* that differs from the base's, or that takes no relative form, is
\* returned as it is.
UrlJoin(base, u) ==
    IF u = "" THEN base
    ELSE IF Scheme(u) # "" /\ (Scheme(u) # Scheme(base) \/ Scheme(u) \notin UsesRelative)
    THEN u
    ELSE IF StartsWith(u, "//") THEN Scheme(base) \o ":" \o u
    ELSE IF StartsWith(u, "/") THEN Origin(base) \o u
    ELSE IF StartsWith(u, "#") THEN NoFragment(base) \o u
    ELSE IF StartsWith(u, "?") THEN NoQuery(base) \o u
    ELSE BaseDir(base) \o u

\* An image normalizer with the '#' branch of the link normalizers.
normalize_image_url_hash(base, img_url) ==
    IF img_url = "" THEN ""
    ELSE IF StartsWith(img_url, "//") THEN "https:" \o img_url
    ELSE IF StartsWith(img_url, "http://") \/ StartsWith(img_url, "https://") THEN img_url
    ELSE IF StartsWith(img_url, "#") THEN base \o img_url
    ELSE UrlJoin(base, img_url)

\* normalize_image_url of list_all_images, search_image_by_keyword,
\* search_by_css_selector and scrape_card_results.
normalize_image_url(base, img_url) ==
    IF img_url = "" THEN ""
    ELSE IF StartsWith(img_url, "//") THEN "https:" \o img_url
    ELSE IF StartsWith(img_url, "http://") \/ StartsWith(img_url, "https://") THEN img_url
    ELSE IF StartsWith(img_url, "/") THEN UrlJoin(base, img_url)
    ELSE UrlJoin(base, img_url)

\* normalize_link_url of search_link_by_keyword; normalize_url of
\* scrape_result_list and scrape_card_results is the same function.
normalize_link_url(base, link_url) ==
    IF link_url = "" THEN ""
    ELSE IF StartsWith(link_url, "//") THEN "https:" \o link_url
    ELSE IF StartsWith(link_url, "http://") \/ StartsWith(link_url, "https://") THEN link_url
    ELSE IF StartsWith(link_url, "/") THEN UrlJoin(base, link_url)
    ELSE IF StartsWith(link_url, "#") THEN base \o link_url
    ELSE UrlJoin(base, link_url)

\* The chain with data-src looked at before src.
ImgSourceDataFirst(n) ==
    IF Get(n, "data-src", "") # "" THEN Get(n, "data-src", "")
    ELSE IF Get(n, "src", "") # "" THEN Get(n, "src", "")
    ELSE IF Get(n, "data-lazy-src", "") # "" THEN Get(n, "data-lazy-src", "")
    ELSE IF Get(n, "data-original", "") # "" THEN Get(n, "data-original", "")
    ELSE Get(n, "data-url", "")

\* img.get('src') or img.get('data-src') or ...: the first attribute that
\* is present and non-empty, "" when there is none.
ImgSource(n) ==
    IF Get(n, "src", "") # "" THEN Get(n, "src", "")
    ELSE IF Get(n, "data-src", "") # "" THEN Get(n, "data-src", "")
    ELSE IF Get(n, "data-lazy-src", "") # "" THEN Get(n, "data-lazy-src", "")
    ELSE IF Get(n, "data-original", "") # "" THEN Get(n, "data-original", "")
    ELSE Get(n, "data-url", "")

(***************************************************************************)
(* Return values: Python's str, list and None.                             *)
(***************************************************************************)
RetStr(s) == [type |-> "str", str |-> s, items |-> <<>>]
RetList(l) == [type |-> "list", str |-> "", items |-> l]
RetNone == [type |-> "none", str |-> "", items |-> <<>>]

\* Flatten without the singleton case: a single match stays a list.
FlattenKeepsList(found, message) ==
    IF found = <<>> THEN RetStr(message) ELSE RetList(found)

\* `found[0] if len(found) == 1 else found`, or the message when empty.
Flatten(found, message) ==
    IF found = <<>> THEN RetStr(message)
    ELSE IF Len(found) = 1 THEN RetStr(found[1])
    ELSE RetList(found)

\* Appending without the membership test.
RECURSIVE AppendAlways(_, _)
AppendAlways(found, cands) ==
    IF cands = <<>> THEN found
    ELSE AppendAlways(IF cands[1] = "" THEN found ELSE Append(found, cands[1]),
                      Tail(cands))

\* `if x not in found: found.append(x)` over the candidates in order.
RECURSIVE AppendNew(_, _)
AppendNew(found, cands) ==
    IF cands = <<>> THEN found
    ELSE AppendNew(IF cands[1] = "" \/ InList(cands[1], found) THEN found
                   ELSE Append(found, cands[1]),
                   Tail(cands))

(***************************************************************************)
(* Keyword search: text, images, links.                                    *)
(***************************************************************************)
TextTags == {"p", "div", "span", "h1", "h2", "h3", "h4", "h5", "h6", "li", "td", "th",
             "article", "section"}

NotFoundText(keyword) == "Not found - No text containing '" \o keyword \o "' was found"
NotFoundLinks(keyword) == "Not found - No links containing '" \o keyword \o "' were found"

\* One loop over the text elements and the images together, by document order.
FoundTextsOnePass(p, keyword, case_sensitive) ==
    LET soup == Decompose(p)
        kw == IF case_sensitive THEN keyword ELSE Lower(keyword)
        Fold(t) == IF case_sensitive THEN t ELSE Lower(t)
        all == InOrder({i \in 1..Len(soup) :
                     \/ /\ soup[i].tag \in TextTags
                        /\ GetText(soup, i, "") # ""
                        /\ Contains(Fold(GetText(soup, i, "")), kw)
                     \/ /\ soup[i].tag = "img" /\ HasAttr(soup[i], "alt")
                        /\ Get(soup[i], "alt", "") # ""
                        /\ Contains(Fold(Get(soup[i], "alt", "")), kw)})
    IN  AppendNew(<<>>, [k \in 1..Len(all) |->
            IF soup[all[k]].tag = "img"
            THEN "[Image Alt Text] " \o Get(soup[all[k]], "alt", "")
            ELSE GetText(soup, all[k], " ")])

\* The loop over all_text_elements of search_text_by_keyword followed by
\* the loop over the images with an alt attribute.
FoundTexts(p, keyword, case_sensitive) ==
    LET soup == Decompose(p)
        kw == IF case_sensitive THEN keyword ELSE Lower(keyword)
        Fold(t) == IF case_sensitive THEN t ELSE Lower(t)
        elems == InOrder({i \in 1..Len(soup) :
                     /\ soup[i].tag \in TextTags
                     /\ GetText(soup, i, "") # ""
                     /\ Contains(Fold(GetText(soup, i, "")), kw)})
        imgs == InOrder({i \in 1..Len(soup) :
                     /\ soup[i].tag = "img" /\ HasAttr(soup[i], "alt")
                     /\ Get(soup[i], "alt", "") # ""
                     /\ Contains(Fold(Get(soup[i], "alt", "")), kw)})
        texts == [k \in 1..Len(elems) |-> GetText(soup, elems[k], " ")]
        alts == [k \in 1..Len(imgs) |-> "[Image Alt Text] " \o Get(soup[imgs[k]], "alt", "")]
    IN  AppendNew(AppendNew(<<>>, texts), alts)

search_text_by_keyword(p, keyword, case_sensitive) ==
    Flatten(FoundTexts(p, keyword, case_sensitive), NotFoundText(keyword))

\* list_all_images: every img's source, normalized, first occurrence kept.
list_all_images(p, base) ==
    LET imgs == FindAll(p, 0, {"img"})
    IN  RetList(AppendNew(<<>>,
            [k \in 1..Len(imgs) |-> normalize_image_url(base, ImgSource(p[imgs[k]]))]))

\* Whether the keyword is in the img's alt, title or class.
ImgAttrMatch(n, kw) ==
    \/ Contains(Lower(Get(n, "alt", "")), kw)
    \/ Contains(Lower(Get(n, "title", "")), kw)
    \/ Contains(Lower(ClassText(n)), kw)

\* Whether the keyword is in the text of the img's nearest enclosing
\* div/section/article/figure.
ImgParentMatch(p, i, kw) ==
    LET parent == FindParent(p, i, {"div", "section", "article", "figure"})
    IN  parent # 0 /\ Contains(Lower(GetText(p, parent, "")), kw)

\* The loop of search_image_by_keyword: per img, the attribute path and
\* then the parent-text path.
FoundImages(p, base, keyword) ==
    LET kw == Lower(keyword)
        imgs == FindAll(p, 0, {"img"})
        u(k) == normalize_image_url(base, ImgSource(p[imgs[k]]))
        cands == [j \in 1..(2 * Len(imgs)) |->
                    LET k == (j + 1) \div 2
                    IN  IF j % 2 = 1
                        THEN (IF ImgAttrMatch(p[imgs[k]], kw) THEN u(k) ELSE "")
                        ELSE (IF ImgParentMatch(p, imgs[k], kw) THEN u(k) ELSE "")]
    IN  AppendNew(<<>>, cands)

\* The image search with the result shape of the text and link searches.
search_image_flattened(p, base, keyword) ==
    Flatten(FoundImages(p, base, keyword), "Not found")

search_image_by_keyword(p, base, keyword) == RetList(FoundImages(p, base, keyword))

\* Whether the keyword is in the anchor's text, href, title or class.
LinkMatch(p, i, kw) ==
    \/ Contains(Lower(GetText(p, i, "")), kw)
    \/ Contains(Lower(Get(p[i], "href", "")), kw)
    \/ Contains(Lower(Get(p[i], "title", "")), kw)
    \/ Contains(Lower(ClassText(p[i])), kw)

\* The loop of search_link_by_keyword over the anchors with an href.
FoundLinks(p, base, keyword) ==
    LET kw == Lower(keyword)
        as == InOrder({i \in 1..Len(p) : p[i].tag = "a" /\ HasAttr(p[i], "href")})
        cands == [k \in 1..Len(as) |->
                    LET href == Get(p[as[k]], "href", "")
                    IN  IF LinkMatch(p, as[k], kw) /\ href # ""
                           /\ ~StartsWith(href, "javascript:")
                        THEN normalize_link_url(base, href)
                        ELSE ""]
    IN  AppendNew(<<>>, cands)

search_link_by_keyword(p, base, keyword) ==
    Flatten(FoundLinks(p, base, keyword), NotFoundLinks(keyword))

(***************************************************************************)
(* scrape_section_by_heading.                                              *)
(***************************************************************************)
HeadingTags == {"h2", "h3"}
BlockTags == {"p", "ul", "ol", "div", "article", "section"}

NotFoundHeading(keyword) ==
    "Not found - No heading containing '" \o keyword \o "' was found"
NoContentBelow(heading_text) ==
    "Found heading '" \o heading_text \o "' but no content found below it"

\* A target search that looks at h2 headings only.
TargetHeadingH2Only(soup, keyword) ==
    LET hs == {i \in 1..Len(soup) : soup[i].tag = "h2"
                  /\ Contains(Lower(GetText(soup, i, "")), Lower(keyword))}
    IN  IF hs = {} THEN 0 ELSE CHOOSE i \in hs : \A j \in hs : i <= j

\* The first h2/h3 whose lower-cased text contains the keyword (0: none).
\* The first matching heading of any level from h1 to h6.
TargetHeadingAnyLevel(soup, keyword) ==
    LET hs == {i \in 1..Len(soup) : soup[i].tag \in {"h1", "h2", "h3", "h4", "h5", "h6"}
                  /\ Contains(Lower(GetText(soup, i, "")), Lower(keyword))}
    IN  IF hs = {} THEN 0 ELSE CHOOSE i \in hs : \A j \in hs : i <= j

TargetHeading(soup, keyword) ==
    LET hs == {i \in 1..Len(soup) : soup[i].tag \in HeadingTags
                  /\ Contains(Lower(GetText(soup, i, "")), Lower(keyword))}
    IN  IF hs = {} THEN 0 ELSE CHOOSE i \in hs : \A j \in hs : i <= j

\* A scan that stops only at a heading of the target's level or above.
RECURSIVE ScanByLevel(_, _, _, _, _)
ScanByLevel(soup, elems, target, started, got) ==
    IF elems = <<>> THEN got
    ELSE LET e == elems[1]
             rest == Tail(elems)
         IN  IF TagEq(soup, e, target) THEN ScanByLevel(soup, rest, target, TRUE, got)
             ELSE IF started /\ soup[e].tag \in HeadingTags
                     /\ ~(soup[target].tag = "h2" /\ soup[e].tag = "h3") THEN got
             ELSE IF started /\ soup[e].tag \in BlockTags /\ GetText(soup, e, " ") # ""
             THEN ScanByLevel(soup, rest, target, started, Append(got, e))
             ELSE ScanByLevel(soup, rest, target, started, got)

\* The loop of methods 1 and 3 over elems: collecting starts after the
\* element equal (by value) to the target and stops at the next h2/h3;
\* the result is the elements whose text was appended to content_parts.
RECURSIVE Scan(_, _, _, _, _)
Scan(soup, elems, target, started, got) ==
    IF elems = <<>> THEN got
    ELSE LET e == elems[1]
             rest == Tail(elems)
         IN  IF TagEq(soup, e, target) THEN Scan(soup, rest, target, TRUE, got)
             ELSE IF started /\ soup[e].tag \in HeadingTags THEN got
             ELSE IF started /\ soup[e].tag \in BlockTags /\ GetText(soup, e, " ") # ""
             THEN Scan(soup, rest, target, started, Append(got, e))
             ELSE Scan(soup, rest, target, started, got)

\* Method 1: the scan over every heading and block element of the page.
FlatScan(soup, target) ==
    Scan(soup, FindAll(soup, 0, HeadingTags \cup BlockTags), target, FALSE, <<>>)

\* The loop of method 2 over the siblings that follow the target's parent.
RECURSIVE Walk(_, _, _)
Walk(soup, sibs, got) ==
    IF sibs = <<>> THEN got
    ELSE LET e == sibs[1]
         IN  IF soup[e].tag \in HeadingTags THEN got
             ELSE IF soup[e].tag \in BlockTags /\ GetText(soup, e, " ") # ""
             THEN Walk(soup, Tail(sibs), Append(got, e))
             ELSE Walk(soup, Tail(sibs), got)

\* Method 2: parent.next_siblings (the document itself has none).
SiblingWalk(soup, target) ==
    LET parent == soup[target].parent
    IN  IF parent = 0 THEN <<>>
        ELSE Walk(soup, InOrder({i \in 1..Len(soup) :
                     i > parent /\ soup[i].parent = soup[parent].parent}), <<>>)

\* Method 3: the scan within the nearest article/main/section/body
\* ancestor, else within soup.body, else within the document.
ContainerScan(soup, target) ==
    LET anc == FindParent(soup, target, {"article", "main", "section", "body"})
        bodies == {i \in 1..Len(soup) : soup[i].tag = "body"}
        container == IF anc # 0 THEN anc
                     ELSE IF bodies # {} THEN CHOOSE i \in bodies : \A j \in bodies : i <= j
                     ELSE 0
    IN  Scan(soup, FindAll(soup, container, HeadingTags \cup BlockTags), target, FALSE, <<>>)

\* The parts kept as they are, without ' '.join(part.split()).
RECURSIVE UniquePartsUncollapsed(_, _)
UniquePartsUncollapsed(parts, kept) ==
    IF parts = <<>> THEN kept
    ELSE UniquePartsUncollapsed(Tail(parts),
             IF parts[1] # "" /\ ~InList(parts[1], kept) /\ Len(parts[1]) > 10
             THEN Append(kept, parts[1]) ELSE kept)

\* ' '.join(part.split()) of each part; a part is kept when it is new
\* and longer than 10 characters.
RECURSIVE UniqueParts(_, _)
UniqueParts(parts, kept) ==
    IF parts = <<>> THEN kept
    ELSE LET normalized == Join(" ", Split(parts[1]))
         IN  UniqueParts(Tail(parts),
                         IF normalized # "" /\ ~InList(normalized, kept) /\ Len(normalized) > 10
                         THEN Append(kept, normalized) ELSE kept)

\* The call with each later method tried when the methods before it left no
\* part that survives the post-processing.
scrape_section_by_survivors(p, keyword) ==
    LET soup == Decompose(p)
        target == TargetHeading(soup, keyword)
        Kept(m) == UniqueParts([k \in 1..Len(m) |-> GetText(soup, m[k], " ")], <<>>)
        m1 == FlatScan(soup, target)
        m2 == IF Kept(m1) = <<>> THEN SiblingWalk(soup, target) ELSE <<>>
        m3 == IF Kept(m1) = <<>> /\ Kept(m2) = <<>> THEN ContainerScan(soup, target) ELSE <<>>
        collected == IF Kept(m1) # <<>> THEN m1 ELSE IF Kept(m2) # <<>> THEN m2 ELSE m3
        method == IF Kept(m1) # <<>> THEN 1 ELSE IF Kept(m2) # <<>> THEN 2
                  ELSE IF m3 # <<>> THEN 3 ELSE 0
    IN  IF target = 0
        THEN [ret |-> RetStr(NotFoundHeading(keyword)),
              loc |-> [target |-> 0, collected |-> <<>>, method |-> 0, exit |-> "not_found"]]
        ELSE IF Kept(collected) # <<>>
        THEN [ret |-> RetStr(Join(" ", Kept(collected))),
              loc |-> [target |-> target, collected |-> collected, method |-> method,
                       exit |-> "content"]]
        ELSE [ret |-> RetStr(NoContentBelow(GetText(soup, target, ""))),
              loc |-> [target |-> target, collected |-> collected, method |-> method,
                       exit |-> "no_content"]]

\* The whole call: its return value and the locals the properties read
\* (the target heading, the elements collected, the method that collected
\* them, and the return statement taken).
scrape_section_by_heading(p, keyword) ==
    LET soup == Decompose(p)
        target == TargetHeading(soup, keyword)
        m1 == FlatScan(soup, target)
        m2 == IF m1 = <<>> THEN SiblingWalk(soup, target) ELSE <<>>
        m3 == IF m1 = <<>> /\ m2 = <<>> THEN ContainerScan(soup, target) ELSE <<>>
        collected == IF m1 # <<>> THEN m1 ELSE IF m2 # <<>> THEN m2 ELSE m3
        method == IF m1 # <<>> THEN 1 ELSE IF m2 # <<>> THEN 2 ELSE IF m3 # <<>> THEN 3 ELSE 0
        content_parts == [k \in 1..Len(collected) |-> GetText(soup, collected[k], " ")]
        unique_parts == UniqueParts(content_parts, <<>>)
    IN  IF target = 0
        THEN [ret |-> RetStr(NotFoundHeading(keyword)),
              loc |-> [target |-> 0, collected |-> <<>>, method |-> 0, exit |-> "not_found"]]
        ELSE IF unique_parts # <<>>
        THEN [ret |-> RetStr(Join(" ", unique_parts)),
              loc |-> [target |-> target, collected |-> collected, method |-> method,
                       exit |-> "content"]]
        ELSE [ret |-> RetStr(NoContentBelow(GetText(soup, target, ""))),
              loc |-> [target |-> target, collected |-> collected, method |-> method,
                       exit |-> "no_content"]]

(***************************************************************************)
(* Tree navigation and CSS selectors, as far as the detectors use them.    *)
(***************************************************************************)
\* The least element of a non-empty set of node indices, 0 for the empty set.
First(S) == IF S = {} THEN 0 ELSE CHOOSE i \in S : \A j \in S : i <= j

\* scope.find(tags): the first descendant of scope with a tag of tags.
FindFirst(p, scope, tags) ==
    First({i \in 1..Len(p) : p[i].tag \in tags /\ IsDesc(p, scope, i)})

\* scope.find_all(tags, recursive=False): the children with a tag of tags.
Children(p, scope, tags) ==
    InOrder({i \in 1..Len(p) : p[i].tag \in tags /\ p[i].parent = scope})

\* scope.find('a', href=True): the first descendant anchor with an href.
FindAnchor(p, scope) ==
    First({i \in 1..Len(p) : p[i].tag = "a" /\ HasAttr(p[i], "href") /\ IsDesc(p, scope, i)})

\* The text between the first two double quotes of a selector.
Quoted(sel) ==
    LET q == Find(sel, "\"")
        rest == SubSeq(sel, q + 1, Len(sel))
    IN  SubSeq(rest, 1, Find(rest, "\"") - 1)

\* Whether node i matches a simple selector: .class, #id, [attr*="v"],
\* [attr="v"] or a tag name.
Matches(p, i, sel) ==
    IF StartsWith(sel, ".") THEN InList(SubSeq(sel, 2, Len(sel)), Split(Get(p[i], "class", "")))
    ELSE IF StartsWith(sel, "#") THEN
        HasAttr(p[i], "id") /\ Get(p[i], "id", "") = SubSeq(sel, 2, Len(sel))
    ELSE IF StartsWith(sel, "[") /\ Contains(sel, "*=") THEN
        LET name == SubSeq(sel, 2, Find(sel, "*=") - 1)
        IN  HasAttr(p[i], name) /\ Contains(Get(p[i], name, ""), Quoted(sel))
    ELSE IF StartsWith(sel, "[") THEN
        LET name == SubSeq(sel, 2, Find(sel, "=") - 1)
        IN  HasAttr(p[i], name) /\ Get(p[i], name, "") = Quoted(sel)
    ELSE p[i].tag = sel

\* scope.select(sel): the matching descendants of scope, in order.
Select(p, scope, sel) ==
    InOrder({i \in 1..Len(p) : IsDesc(p, scope, i) /\ Matches(p, i, sel)})

\* scope.select_one(sel)
SelectOne(p, scope, sel) ==
    First({i \in 1..Len(p) : IsDesc(p, scope, i) /\ Matches(p, i, sel)})

(***************************************************************************)
(* scrape_result_list: one item.                                           *)
(***************************************************************************)
StatusWords ==
    <<"Out", "Final Result", "Start", "Last Date", "Date Extend", "Reminder", "Booking">>

\* The first position at or after i that holds no whitespace.
RECURSIVE SkipSpace(_, _)
SkipSpace(s, i) == IF i <= Len(s) /\ IsSpace(Char(s, i)) THEN SkipSpace(s, i + 1) ELSE i

\* Whether a status word stands at position q of s, in any letter case.
WordAt(s, q, w) == q + Len(w) - 1 <= Len(s) /\ Lower(SubSeq(s, q, q + Len(w) - 1)) = Lower(w)

\* The dashes of s that a status word follows.
StatusDashes(s) ==
    {d \in 1..Len(s) : Char(s, d) = "-"
        /\ \E k \in 1..Len(StatusWords) : WordAt(s, SkipSpace(s, d + 1), StatusWords[k])}

\* The openings '(' of s from which no line break lies before the final ')'.
StatusParens(s) ==
    {o \in 1..(Len(s) - 1) : Char(s, o) = "(" /\ EndsWith(s, ")")
        /\ ~Contains(SubSeq(s, o + 1, Len(s) - 1), "\n")}

\* re.search over status_patterns: the word after the leftmost such
\* dash as the text writes it, else the trailing parenthetical.
Status(s) ==
    IF StatusDashes(s) # {}
    THEN LET q == SkipSpace(s, First(StatusDashes(s)) + 1)
             k == CHOOSE k \in 1..Len(StatusWords) : WordAt(s, q, StatusWords[k])
         IN  SubSeq(s, q, q + Len(StatusWords[k]) - 1)
    ELSE IF StatusParens(s) # {}
    THEN SubSeq(s, First(StatusParens(s)) + 1, Len(s) - 1)
    ELSE ""

\* The first nonzero entry of a sequence of node indices (0: none), and the
\* first nonempty sequence of a sequence of sequences (<<>>: none).
FirstNonZero(seq) ==
    IF \A k \in 1..Len(seq) : seq[k] = 0 THEN 0
    ELSE seq[First({k \in 1..Len(seq) : seq[k] # 0})]
FirstNonEmpty(seqs) ==
    IF \A k \in 1..Len(seqs) : seqs[k] = <<>> THEN <<>>
    ELSE seqs[First({k \in 1..Len(seqs) : seqs[k] # <<>>})]

\* The link of an item or card: the href of its first anchor, else its own
\* href if it is an anchor, normalized.
ItemLink(p, base, item, link_elem) ==
    IF link_elem # 0 THEN normalize_link_url(base, Get(p[link_elem], "href", ""))
    ELSE IF p[item].tag = "a" /\ Get(p[item], "href", "") # ""
    THEN normalize_link_url(base, Get(p[item], "href", ""))
    ELSE ""

\* The fields of an item from its text and its link.
ResultItem(text, link) ==
    [title |-> text, link |-> link, text |-> text,
     status |-> IF text # "" THEN Status(text) ELSE ""]

\* extract_result_item: title, link, text and status of one item; the
\* text is that of the item's first anchor if it has one.
ItemWithAnchor(p, base, item, link_elem) ==
    ResultItem(GetText(p, IF link_elem # 0 THEN link_elem ELSE item, ""),
               ItemLink(p, base, item, link_elem))
extract_result_item(p, base, item) == ItemWithAnchor(p, base, item, FindAnchor(p, item))

\* An append that filters nothing.
AppendRecordAlways(results, d, idx) ==
    Append(results, [title |-> d.title, link |-> d.link, text |-> d.text,
                     status |-> d.status, index |-> idx])

\* if item_data and (item_data['title'] or item_data['text']): the record
\* is appended with its item's position as index.
AppendRecord(results, d, idx) ==
    IF d.title # "" \/ d.text # ""
    THEN Append(results, [title |-> d.title, link |-> d.link, text |-> d.text,
                          status |-> d.status, index |-> idx])
    ELSE results

\* for idx, item in enumerate(items, 1)
RECURSIVE Records(_, _, _, _, _)
Records(p, base, items, idx, results) ==
    IF idx > Len(items) THEN results
    ELSE Records(p, base, items, idx + 1,
                 AppendRecord(results, extract_result_item(p, base, items[idx]), idx))

(***************************************************************************)
(* scrape_result_list: finding the list.                                   *)
(***************************************************************************)
ListTags == {"ul", "ol"}
AnyHeadingTags == {"h1", "h2", "h3", "h4", "h5", "h6"}
SectionHeadingTags == AnyHeadingTags \cup {"div", "span", "strong", "b", "p"}

FoundNoData == "Found elements but could not extract data from them."
Advisory ==
    "No result lists found. Try:\n"
    \o "1. Specify a section name (e.g., 'Results', 'Admit Cards')\n"
    \o "2. Specify a CSS selector for list items (e.g., 'ul li', '.result-list li')"

\* The direct li children of a list.
Items(p, l) == Children(p, l, {"li"})

\* A list (0: none) with at least two direct li children.
HasItems(p, l) == l # 0 /\ Len(Items(p, l)) >= 2

\* sibling.find_previous(h1..h6): the nearest heading before node i.
FindPrevious(p, i) ==
    LET hs == {j \in 1..(i - 1) : p[j].tag \in AnyHeadingTags}
    IN  IF hs = {} THEN 0 ELSE CHOOSE j \in hs : \A k \in hs : k <= j

\* The first of the (at most three) lists after `parent` that has items
\* and whose nearest preceding heading equals the candidate heading.
SiblingList(p, parent, heading) ==
    LET after == InOrder({i \in (parent + 1)..Len(p) : p[i].tag \in ListTags})
        near == SubSeq(after, 1, IF Len(after) < 3 THEN Len(after) ELSE 3)
    IN  First({near[k] : k \in {j \in 1..Len(near) :
                  /\ HasItems(p, near[j])
                  /\ FindPrevious(p, near[j]) # 0
                  /\ TagEq(p, FindPrevious(p, near[j]), heading)}})

\* The loop `for _ in range(5)` from `current`, n rounds left: a list in
\* the parent, else a list after the parent, else a list in `current`,
\* else one level up (0: no list found, or the document was passed).
RECURSIVE Climb(_, _, _, _)
Climb(p, heading, current, n) ==
    IF n = 0 THEN 0
    ELSE LET parent == p[current].parent
             in_parent == FindFirst(p, parent, ListTags)
             by_parent == IF current = 0 THEN 0
                          ELSE IF HasItems(p, in_parent) THEN in_parent
                          ELSE SiblingList(p, parent, heading)
             embedded == FindFirst(p, current, ListTags)
         IN  IF by_parent # 0 THEN by_parent
             ELSE IF HasItems(p, embedded) THEN embedded
             ELSE IF current # 0 THEN Climb(p, heading, parent, n - 1)
             ELSE 0

\* Method 1 of the named section: the list of the first heading-like
\* element with a short text containing the section name that has one.
HeadingCandidates(p, section_name) ==
    InOrder({i \in 1..Len(p) :
                /\ p[i].tag \in SectionHeadingTags
                /\ Contains(Lower(GetText(p, i, "")), Lower(section_name))
                /\ Len(GetText(p, i, "")) < 50})
ListOfHeadings(p, cands) ==
    FirstNonZero([k \in 1..Len(cands) |-> Climb(p, cands[k], cands[k], 5)])
ListByHeading(p, section_name) == ListOfHeadings(p, HeadingCandidates(p, section_name))

\* Method 2 of the named section: the first list with items inside an
\* element whose class or id holds the section name.
ListInSelected(p, sections) ==
    FirstNonZero([k \in 1..Len(sections) |->
        IF HasItems(p, FindFirst(p, sections[k], ListTags))
        THEN FindFirst(p, sections[k], ListTags) ELSE 0])
ListBySelectors(p, selectors) ==
    FirstNonZero([k \in 1..Len(selectors) |-> ListInSelected(p, Select(p, 0, selectors[k]))])
ListByAttribute(p, section_name) ==
    ListBySelectors(p, << "[class*=\"" \o Lower(section_name) \o "\"]",
                          "[id*=\"" \o Lower(section_name) \o "\"]",
                          "." \o Lower(section_name), "#" \o Lower(section_name) >>)

\* The list of the named section (0: none).
SectionList(p, section_name) ==
    FirstNonZero(<<ListByHeading(p, section_name), ListByAttribute(p, section_name)>>)

(***************************************************************************)
(* scrape_result_list: unsupervised scoring, heading fallback, the call.   *)
(***************************************************************************)
ResultKeywords ==
    {"result", "admit", "card", "exam", "job", "notification", "form", "out", "start"}
SectionKeywords == {"result", "admit", "job", "notification", "exam", "recruitment"}

ContainsAny(text, words) == \E w \in words : Contains(text, w)

\* The score with the link thresholds taken strictly (more than 70%, more
\* than 50%).
ScoreStrict(p, list_items) ==
    LET n == Len(list_items)
        links_count == Cardinality({k \in 1..n : FindAnchor(p, list_items[k]) # 0})
        keyword_matches == Cardinality({k \in 1..(IF n < 5 THEN n ELSE 5) :
            ContainsAny(Lower(GetText(p, list_items[k], "")), ResultKeywords)})
    IN  (IF 10 * links_count > 7 * n THEN 3 ELSE IF 2 * links_count > n THEN 2 ELSE 0)
        + (IF keyword_matches >= 3 THEN 2 ELSE IF keyword_matches >= 2 THEN 1 ELSE 0)
        + (IF n >= 10 THEN 1 ELSE 0)

\* The score of a list with items list_items.
Score(p, list_items) ==
    LET n == Len(list_items)
        links_count == Cardinality({k \in 1..n : FindAnchor(p, list_items[k]) # 0})
        keyword_matches == Cardinality({k \in 1..(IF n < 5 THEN n ELSE 5) :
            ContainsAny(Lower(GetText(p, list_items[k], "")), ResultKeywords)})
    IN  (IF 10 * links_count >= 7 * n THEN 3 ELSE IF 2 * links_count >= n THEN 2 ELSE 0)
        + (IF keyword_matches >= 3 THEN 2 ELSE IF keyword_matches >= 2 THEN 1 ELSE 0)
        + (IF n >= 10 THEN 1 ELSE 0)

\* The lists with at least 3 items that score at least 3.
Candidates(p) ==
    {l \in 1..Len(p) : p[l].tag \in ListTags /\ Len(Items(p, l)) >= 3
                          /\ Score(p, Items(p, l)) >= 3}

\* candidate_lists.sort(key=score, reverse=True)[0]: the first list, in
\* document order, among those of the highest score (0: no candidate).
BestOf(p, cands) ==
    First({l \in cands : \A m \in cands : Score(p, Items(p, m)) <= Score(p, Items(p, l))})
BestList(p) == BestOf(p, Candidates(p))

\* The elements the heading fallback starts from: h1-h4/div/span with a
\* class matching title|heading|header and a text with a section keyword.
FallbackHeadings(p) ==
    InOrder({i \in 1..Len(p) :
        /\ p[i].tag \in {"h1", "h2", "h3", "h4", "div", "span"}
        /\ ContainsAny(Lower(Get(p[i], "class", "")), {"title", "heading", "header"})
        /\ ContainsAny(Lower(GetText(p, i, "")), SectionKeywords)})

\* The items found at `parent`: its li/a children, else the items of its
\* first list.
NearbyItems(p, parent) ==
    FirstNonEmpty(<<Children(p, parent, {"li", "a"}),
                    IF FindFirst(p, parent, ListTags) # 0
                    THEN Items(p, FindFirst(p, parent, ListTags)) ELSE <<>> >>)

\* if len(list_items) >= 3: the records of the items.
RecordsIfAny(p, base, list_items) ==
    IF Len(list_items) >= 1 THEN Records(p, base, list_items, 1, <<>>) ELSE <<>>
RecordsIfThree(p, base, list_items) ==
    IF Len(list_items) >= 3 THEN Records(p, base, list_items, 1, <<>>) ELSE <<>>

\* The loop `for _ in range(4)` from `parent` (the document is 0, its
\* parent -1), n rounds left: the records of the first ancestor with at
\* least 3 nearby items that yield a record.
RECURSIVE ClimbFallback(_, _, _, _)
ClimbFallback(p, base, parent, n) ==
    IF n = 0 \/ parent = -1 THEN <<>>
    ELSE FirstNonEmpty(<<RecordsIfThree(p, base, NearbyItems(p, parent)),
                         ClimbFallback(p, base, IF parent = 0 THEN -1 ELSE p[parent].parent,
                                       n - 1)>>)

\* The records of the first fallback heading that leads to any.
HeadingFallback(p, base, headings) ==
    FirstNonEmpty([k \in 1..Len(headings) |->
                      ClimbFallback(p, base, p[headings[k]].parent, 4)])

\* A call's return value together with the strategy that returned and
\* the items it worked on.
Outcome(value, strategy, items) ==
    [ret |-> value, loc |-> [strategy |-> strategy, items |-> items]]

\* The selector's items were found: their records, or a message.
SelectorOutcomeAdvisory(items, results) ==
    Outcome(IF results # <<>> THEN RetList(results) ELSE RetStr(Advisory), "selector", items)
SelectorOutcome(items, results) ==
    Outcome(IF results # <<>> THEN RetList(results) ELSE RetStr(FoundNoData), "selector", items)

\* The strategies in the order the code tries them, each returning if it
\* has records and falling through to the next otherwise.
ByHeading(results) ==
    IF results # <<>> THEN Outcome(RetList(results), "heading", <<>>)
    ELSE Outcome(RetStr(Advisory), "none", <<>>)

ByScoreRecords(p, base, best, results) ==
    IF results # <<>> THEN Outcome(RetList(results), "scoring", Items(p, best))
    ELSE ByHeading(HeadingFallback(p, base, FallbackHeadings(p)))
ByScore(p, base, best) ==
    ByScoreRecords(p, base, best,
                   IF best # 0 THEN Records(p, base, Items(p, best), 1, <<>>) ELSE <<>>)

\* The named section without records goes on to the heading fallback,
\* leaving the scoring out.
BySectionRecordsNoScoring(p, base, target_list, results) ==
    IF results # <<>> THEN Outcome(RetList(results), "section", Items(p, target_list))
    ELSE ByHeading(HeadingFallback(p, base, FallbackHeadings(p)))

BySectionRecords(p, base, target_list, results) ==
    IF results # <<>> THEN Outcome(RetList(results), "section", Items(p, target_list))
    ELSE ByScore(p, base, BestList(p))
\* A named section without records ends the call with the advisory.
BySectionOnly(p, base, target_list) ==
    IF target_list # 0 /\ Records(p, base, Items(p, target_list), 1, <<>>) # <<>>
    THEN Outcome(RetList(Records(p, base, Items(p, target_list), 1, <<>>)), "section",
                 Items(p, target_list))
    ELSE Outcome(RetStr(Advisory), "none", <<>>)

BySection(p, base, target_list) ==
    BySectionRecords(p, base, target_list,
                     IF target_list # 0 THEN Records(p, base, Items(p, target_list), 1, <<>>)
                     ELSE <<>>)

BySelector(p, base, section_name, items) ==
    IF items # <<>> THEN SelectorOutcome(items, Records(p, base, items, 1, <<>>))
    ELSE BySection(p, base, IF section_name # "" THEN SectionList(p, section_name) ELSE 0)

\* The whole call: its return value, and the strategy that returned.
scrape_result_list(p, base, section_name, list_selector) ==
    BySelector(p, base, section_name,
               IF list_selector # "" THEN Select(p, 0, list_selector) ELSE <<>>)

(***************************************************************************)
(* scrape_card_results.                                                    *)
(***************************************************************************)
TitleSelectors ==
    << "h1", "h2", "h3", "h4", ".title", "[class*=\"title\"]", "[class*=\"name\"]",
       ".card-title", ".result-title" >>
DescSelectors ==
    << ".description", ".desc", "[class*=\"desc\"]", "p", ".text", "[class*=\"text\"]",
       ".summary", "[class*=\"summary\"]" >>
CommonSelectors ==
    << ".card", ".result-card", ".item-card", ".card-item", "[class*=\"card\"]",
       ".result-item", ".item", "[class*=\"result\"]", ".product-card", ".product-item",
       "[data-testid*=\"card\"]", "[class*=\"grid-item\"]", ".search-result",
       "[class*=\"search-result\"]", "article", "[role=\"article\"]" >>

NoCards == "No cards found. Try specifying a custom CSS selector for the card elements."
CardsNoData == "Found card elements but could not extract data from them."

\* s.replace(sub, '', 1)
RemoveFirst(s, sub) ==
    IF sub = "" \/ ~Contains(s, sub) THEN s
    ELSE SubSeq(s, 1, Find(s, sub) - 1) \o SubSeq(s, Find(s, sub) + Len(sub), Len(s))

\* s.split('\n')[0]
FirstLine(s) == IF Contains(s, "\n") THEN SubSeq(s, 1, Find(s, "\n") - 1) ELSE s

\* words[:n]
Take(words, n) == SubSeq(words, 1, IF Len(words) < n THEN Len(words) ELSE n)

\* The element of the first title selector that selects one (0: none).
TitleElem(p, card) ==
    FirstNonZero([k \in 1..Len(TitleSelectors) |-> SelectOne(p, card, TitleSelectors[k])])

\* The element of the first description selector that selects one with a
\* text (0: none).
WithText(p, e) == IF e # 0 /\ GetText(p, e, "") # "" THEN e ELSE 0
DescElem(p, card) ==
    FirstNonZero([k \in 1..Len(DescSelectors) |->
                     WithText(p, SelectOne(p, card, DescSelectors[k]))])

\* get_text of an element that may be missing.
TextOf(p, e) == IF e = 0 THEN "" ELSE GetText(p, e, "")

\* The fields with the description not cut at 50 words.
CardTextsUncut(desc0, text_words) ==
    [description |-> IF desc0 # "" THEN desc0 ELSE Join(" ", text_words),
     text |-> IF desc0 # "" THEN desc0 ELSE Join(" ", text_words)]

\* The description and text fields: the description element's text, else
\* the first 50 words and all the words of the card's remaining text.
CardTexts(desc0, text_words) ==
    [description |-> IF desc0 # "" THEN desc0 ELSE Join(" ", Take(text_words, 50)),
     text |-> IF desc0 # "" THEN desc0 ELSE Join(" ", text_words)]

\* The title fallbacks: the anchor's text, else a short first line.
CardTitle(title0, link_elem, link_text, first_text) ==
    IF title0 # "" THEN title0
    ELSE IF link_elem # 0 THEN link_text
    ELSE IF first_text # "" /\ Len(first_text) < 100 THEN first_text
    ELSE ""

CardFields(title, link, image, texts) ==
    [title |-> title, description |-> texts.description, image |-> image, link |-> link,
     text |-> texts.text]

CardOf(p, base, card, title0, link_elem, img_elem, desc0) ==
    CardFields(CardTitle(title0, link_elem, TextOf(p, link_elem),
                         Strip(FirstLine(GetText(p, card, "")))),
               ItemLink(p, base, card, link_elem),
               IF img_elem # 0 THEN normalize_image_url(base, ImgSource(p[img_elem])) ELSE "",
               CardTexts(desc0,
                         Split(IF title0 # ""
                               THEN Strip(RemoveFirst(GetText(p, card, " "), title0))
                               ELSE GetText(p, card, " "))))

\* extract_card_data: the fields of one card.
extract_card_data(p, base, card) ==
    CardOf(p, base, card, TextOf(p, TitleElem(p, card)), FindAnchor(p, card),
           FindFirst(p, card, {"img"}), TextOf(p, DescElem(p, card)))

\* An append that filters nothing.
AppendCardAlways(cards_data, d, idx) ==
    Append(cards_data, [title |-> d.title, description |-> d.description,
                        image |-> d.image, link |-> d.link, text |-> d.text,
                        index |-> idx])

\* if card_data and (title or description or link): the card is appended
\* with its element's position as index.
AppendCard(cards_data, d, idx) ==
    IF d.title # "" \/ d.description # "" \/ d.link # ""
    THEN Append(cards_data, [title |-> d.title, description |-> d.description,
                             image |-> d.image, link |-> d.link, text |-> d.text,
                             index |-> idx])
    ELSE cards_data

\* for idx, card in enumerate(card_elements, 1)
RECURSIVE Cards(_, _, _, _, _)
Cards(p, base, card_elements, idx, cards_data) ==
    IF idx > Len(card_elements) THEN cards_data
    ELSE Cards(p, base, card_elements, idx + 1,
               AppendCard(cards_data, extract_card_data(p, base, card_elements[idx]), idx))

\* The card elements: those of the caller's selector, else those of the
\* first common selector that selects any.
CardElements(p, card_selector) ==
    IF card_selector # "" THEN Select(p, 0, card_selector)
    ELSE FirstNonEmpty([k \in 1..Len(CommonSelectors) |-> Select(p, 0, CommonSelectors[k])])

\* The return value for the card elements and their cards.
CardOutcome(card_elements, cards_data) ==
    [ret |-> IF card_elements = <<>> THEN RetStr(NoCards)
             ELSE IF cards_data = <<>> THEN RetStr(CardsNoData)
             ELSE RetList(cards_data),
     loc |-> [items |-> card_elements]]
CardsOf(p, base, card_elements) ==
    CardOutcome(card_elements, Cards(p, base, card_elements, 1, <<>>))

\* The whole call.
scrape_card_results(p, base, card_selector) ==
    CardsOf(p, base, CardElements(p, card_selector))

(***************************************************************************)
(* The state machine: the parser builds the page, then extraction calls    *)
(* run on it.  Each call fetches and parses the page anew, so the tree a   *)
(* call works on is the page itself.                                       *)
(***************************************************************************)
\* What the parser reads in one step: an element with its attributes, its
\* leading text and its child elements `inner`, either complete
\* ("<p>text</p>", "<img ...>", "<li><a href=...>text</a></li>") or left
\* open for the elements that follow.
Leaf(tag, attrs, text) ==
    [tag |-> tag, attrs |-> attrs, text |-> text, leaf |-> TRUE, inner |-> <<>>]
Container(tag, attrs, text) ==
    [tag |-> tag, attrs |-> attrs, text |-> text, leaf |-> FALSE, inner |-> <<>>]
Around(tag, attrs, inner) ==
    [tag |-> tag, attrs |-> attrs, text |-> "", leaf |-> TRUE, inner |-> inner]

NoCall == [op |-> "none", args |-> <<>>]

BaseUrl == "https://example.com/page"

\* No tree was asked for yet; no call was made before the last one.
NoView == [fetched |-> "none", given |-> <<>>, left |-> <<>>]
NoPrev == [call |-> NoCall, ret |-> RetNone, given |-> <<>>]

Init ==
    /\ page = <<>>
    /\ open = <<>>
    /\ read = 0
    /\ url = BaseUrl
    /\ call = NoCall
    /\ ret = RetNone
    /\ loc = <<>>
    /\ view = NoView
    /\ prev = NoPrev

\* The parser reads a fragment: its element becomes the last child of the
\* innermost open element, and stays open unless it is complete.
StartTag(n, max) ==
    /\ call = NoCall
    /\ read < max
    /\ read' = read + 1
    /\ page' = Append(page, [tag |-> n.tag, attrs |-> n.attrs, text |-> n.text,
                             parent |-> IF open = <<>> THEN 0 ELSE open[Len(open)]])
                \o [k \in 1..Len(n.inner) |->
                      [tag |-> n.inner[k].tag, attrs |-> n.inner[k].attrs,
                       text |-> n.inner[k].text, parent |-> Len(page) + 1]]
    /\ open' = IF n.leaf THEN open ELSE Append(open, Len(page) + 1)
    /\ UNCHANGED <<url, call, ret, loc, view, prev>>

\* The parser reads an end tag: the innermost open element is closed.
EndTag ==
    /\ call = NoCall
    /\ open # <<>>
    /\ open' = SubSeq(open, 1, Len(open) - 1)
    /\ UNCHANGED <<page, read, url, call, ret, loc, view, prev>>

\* A tree kept from the call before instead of a fresh one.
get_page_content_kept(document) ==
    IF view.fetched = "tree" THEN view.left ELSE document

\* get_page_content when the request succeeds: every call gets a tree of
\* its own, parsed from the document the server holds.
get_page_content(document) == document

\* A call that removes nothing from its tree.
WorkingTreeUntouched(op, tree) == tree

\* The call's tree when the call returns: search_text_by_keyword and
\* scrape_section_by_heading decompose its script and style elements in
\* place, the other calls only read it.
WorkingTree(op, tree) ==
    IF op \in {"search_text_by_keyword", "scrape_section_by_heading"}
    THEN Decompose(tree)
    ELSE tree

\* The tree of a call that obtained `tree`.
ViewOf(op, tree) == [fetched |-> "tree", given |-> tree, left |-> WorkingTree(op, tree)]

\* An extraction call on the page, once it is parsed to its end.  A call
\* fetches and parses the page for itself and shares nothing with another
\* call.
Returns(op, args, value, locals) ==
    /\ call = NoCall
    /\ open = <<>>
    /\ call' = [op |-> op, args |-> args]
    /\ ret' = value
    /\ loc' = locals
    /\ view' = ViewOf(op, get_page_content(page))
    /\ UNCHANGED <<page, open, read, url, prev>>

SearchText(keyword) ==
    Returns("search_text_by_keyword", <<keyword>>,
            search_text_by_keyword(page, keyword, FALSE), <<>>)

ListImages == Returns("list_all_images", <<>>, list_all_images(page, url), <<>>)

SearchImage(keyword) ==
    Returns("search_image_by_keyword", <<keyword>>,
            search_image_by_keyword(page, url, keyword), <<>>)

SearchLink(keyword) ==
    Returns("search_link_by_keyword", <<keyword>>,
            search_link_by_keyword(page, url, keyword), <<>>)

ScrapeSection(keyword) ==
    LET r == scrape_section_by_heading(page, keyword)
    IN  Returns("scrape_section_by_heading", <<keyword>>, r.ret, r.loc)

ScrapeResultList(section_name, list_selector) ==
    LET r == scrape_result_list(page, url, section_name, list_selector)
    IN  Returns("scrape_result_list", <<section_name, list_selector>>, r.ret, r.loc)

ScrapeCards(card_selector) ==
    LET r == scrape_card_results(page, url, card_selector)
    IN  Returns("scrape_card_results", <<card_selector>>, r.ret, r.loc)

\* The named call on a tree: its return value and its locals.
Invoke(op, args, p, base) ==
    CASE op = "search_text_by_keyword" ->
            [ret |-> search_text_by_keyword(p, args[1], FALSE), loc |-> <<>>]
      [] op = "list_all_images" -> [ret |-> list_all_images(p, base), loc |-> <<>>]
      [] op = "search_image_by_keyword" ->
            [ret |-> search_image_by_keyword(p, base, args[1]), loc |-> <<>>]
      [] op = "search_link_by_keyword" ->
            [ret |-> search_link_by_keyword(p, base, args[1]), loc |-> <<>>]
      [] op = "scrape_section_by_heading" -> scrape_section_by_heading(p, args[1])
      [] op = "scrape_result_list" -> scrape_result_list(p, base, args[1], args[2])
      [] op = "scrape_card_results" -> scrape_card_results(p, base, args[1])

\* The last call is made once more with the same arguments while the
\* server holds the same document.
AgainOn(tree, r) ==
    /\ call # NoCall
    /\ view.fetched = "tree"
    /\ prev = NoPrev
    /\ prev' = [call |-> call, ret |-> ret, given |-> view.given]
    /\ ret' = r.ret
    /\ loc' = r.loc
    /\ view' = ViewOf(call.op, tree)
    /\ UNCHANGED <<page, open, read, url, call>>
Again ==
    AgainOn(get_page_content(page), Invoke(call.op, call.args, get_page_content(page), url))

\* What each call returns when get_page_content returns None.
NoTree(op) ==
    IF op \in {"list_all_images", "search_image_by_keyword"} THEN RetList(<<>>)
    ELSE IF op \in {"scrape_result_list", "scrape_card_results"}
    THEN RetStr("Error: Could not fetch the webpage")
    ELSE RetNone

\* The request fails (no answer, an error status, a timeout):
\* get_page_content catches the exception, prints it and returns None,
\* and the call returns at its `if not soup`.
FetchFails(op, args) ==
    /\ call = NoCall
    /\ read = 0
    /\ call' = [op |-> op, args |-> args]
    /\ ret' = NoTree(op)
    /\ loc' = <<>>
    /\ view' = [fetched |-> "failed", given |-> <<>>, left |-> <<>>]
    /\ UNCHANGED <<page, open, read, url, prev>>

(***************************************************************************)
(* The request layer: /api/scrape of app.py.                               *)
(***************************************************************************)
\* The engine call of a request of the given type and method, for the
\* types and methods that call the functions above.
EngineCall(type, method, keyword) ==
    IF type = "text" THEN [op |-> "search_text_by_keyword", args |-> <<keyword>>]
    ELSE IF type = "image" /\ method = "keyword"
    THEN [op |-> "search_image_by_keyword", args |-> <<keyword>>]
    ELSE IF type = "image" THEN [op |-> "list_all_images", args |-> <<>>]
    ELSE IF type = "link" THEN [op |-> "search_link_by_keyword", args |-> <<keyword>>]
    ELSE [op |-> "scrape_card_results", args |-> <<"">>]

\* The JSON response for the engine's result: a string that starts with
\* "Error:" or "Not found" and None are failures, any other string is a
\* single item, a list is its items.
Respond(result) ==
    IF result.type = "str" /\ (StartsWith(result.str, "Error:")
                                \/ StartsWith(result.str, "Not found"))
    THEN [success |-> FALSE, error |-> result.str, data |-> <<>>]
    ELSE IF result.type = "str" THEN [success |-> TRUE, error |-> "", data |-> <<result.str>>]
    ELSE IF result.type = "none"
    THEN [success |-> FALSE, error |-> "No data extracted", data |-> <<>>]
    ELSE [success |-> TRUE, error |-> "", data |-> result.items]

\* A request: the engine call is made, on the parsed page or with the
\* request for the page failing, and its result is turned into the
\* response.
ScrapeWith(type, method, keyword, c, result, fetched) ==
    /\ call = NoCall
    /\ open = <<>>
    /\ fetched \/ read = 0
    /\ call' = [op |-> "scrape", args |-> <<type, method, keyword>>]
    /\ ret' = result
    /\ loc' = Respond(result)
    /\ view' = IF fetched THEN ViewOf(c.op, get_page_content(page))
               ELSE [fetched |-> "failed", given |-> <<>>, left |-> <<>>]
    /\ UNCHANGED <<page, open, read, url, prev>>
Scrape(type, method, keyword, fetched) ==
    ScrapeWith(type, method, keyword, EngineCall(type, method, keyword),
               IF fetched
               THEN Invoke(EngineCall(type, method, keyword).op,
                           EngineCall(type, method, keyword).args, page, url).ret
               ELSE NoTree(EngineCall(type, method, keyword).op),
               fetched)

(***************************************************************************)
(* Keyword searches over pages of text blocks, images and anchors.         *)
(***************************************************************************)
MaxKeywordNodes == 3

KeywordNodes ==
    { Container("div", {}, "Notices"),
      Leaf("p", {}, "Notice board"),
      Leaf("span", {}, " notice\n"),
      Leaf("img", {<<"alt", "Notice">>, <<"src", "/a.png">>}, ""),
      Leaf("img", {<<"class", "hero notice">>, <<"data-src", "//example.com/a.png">>}, ""),
      Leaf("img", {<<"src", "b.png">>}, ""),
      Leaf("a", {<<"href", "/notice">>}, "Latest"),
      Leaf("a", {<<"href", "https://example.com/notice">>, <<"title", "Notices">>}, ""),
      Leaf("a", {<<"href", "javascript:void(0)">>}, "notice"),
      Leaf("a", {<<"href", "JavaScript:void(0)">>}, "notice") }

Keywords == {"Notice", "zzz"}

ParseKeyword == \E n \in KeywordNodes : StartTag(n, MaxKeywordNodes)

NextKeyword ==
    \/ ParseKeyword
    \/ EndTag
    \/ \E k \in Keywords : SearchText(k)
    \/ ListImages
    \/ \E k \in Keywords : SearchImage(k)
    \/ \E k \in Keywords : SearchLink(k)

SpecKeyword == Init /\ [][NextKeyword]_vars

(***************************************************************************)
(* Section extraction over pages of headings, paragraphs and containers.   *)
(***************************************************************************)
MaxSectionNodes == 5

SectionNodes ==
    { Leaf("h1", {}, "Pricing plans"),
      Leaf("h2", {}, "Pricing"),
      Leaf("h3", {}, "Pricing FAQ"),
      Leaf("p", {}, "Plans start at  five"),
      Leaf("p", {}, "Free"),
      Container("div", {}, "") }

HeadingKeywords == {"Pricing"}

ParseSection == \E n \in SectionNodes : StartTag(n, MaxSectionNodes)

NextSection ==
    \/ ParseSection
    \/ EndTag
    \/ \E k \in HeadingKeywords : ScrapeSection(k)

SpecSection == Init /\ [][NextSection]_vars

(***************************************************************************)
(* Record detection over pages of lists, items, headings and anchors.      *)
(***************************************************************************)
MaxListReads == 4

ListNodes ==
    { Container("ul", {}, ""),
      Around("li", {<<"class", "item">>},
             <<Leaf("a", {<<"href", "/r1">>}, "Result 1 - Out")>>),
      Leaf("li", {}, "Exam form"),
      Leaf("li", {<<"class", "item">>}, ""),
      Leaf("h2", {<<"class", "title">>}, "Results"),
      Leaf("a", {<<"href", "r2">>}, "Job notice") }

SectionNames == {"", "Results"}
ListSelectors == {"", "li"}

ParseList == \E n \in ListNodes : StartTag(n, MaxListReads)

NextList ==
    \/ ParseList
    \/ EndTag
    \/ \E sn \in SectionNames, sel \in ListSelectors : ScrapeResultList(sn, sel)
    \/ \E sel \in ListSelectors : ScrapeCards(sel)

SpecList == Init /\ [][NextList]_vars

(***************************************************************************)
(* The URL-producing calls over pages of anchors and images whose          *)
(* attributes take every form of reference.                                *)
(***************************************************************************)
MaxUrlReads == 3

UrlNodes ==
    { Container("li", {}, ""),
      Container("div", {<<"class", "card">>}, ""),
      Leaf("a", {<<"href", "/r1">>}, "go"),
      Leaf("a", {<<"href", "r2">>}, "go"),
      Leaf("a", {<<"href", "//cdn.x.com/r3">>}, "go"),
      Leaf("a", {<<"href", "#top">>}, "go"),
      Leaf("a", {<<"href", "mailto:a@b.c">>}, "go"),
      Leaf("a", {<<"href", "javascript:void(0)">>}, "go"),
      Leaf("img", {<<"src", "/a.png">>, <<"alt", "go">>}, ""),
      Leaf("img", {<<"data-src", "//cdn.x.com/a.png">>, <<"alt", "go">>}, ""),
      Leaf("img", {<<"src", "a.png">>}, "") }

ParseUrl == \E n \in UrlNodes : StartTag(n, MaxUrlReads)

NextUrl ==
    \/ ParseUrl
    \/ EndTag
    \/ SearchLink("go")
    \/ ListImages
    \/ SearchImage("go")
    \/ \E sel \in {"li", "a"} : ScrapeResultList("", sel)
    \/ \E sel \in {"", "a"} : ScrapeCards(sel)

SpecUrl == Init /\ [][NextUrl]_vars

(***************************************************************************)
(* Every call, made once and made again, and made when the request fails,  *)
(* over pages with a script, text whose words are two spaces apart, and    *)
(* images whose source is in one attribute or another.                     *)
(***************************************************************************)
MaxCallReads == 3

CallNodes ==
    { Leaf("script", {}, "notice()"),
      Container("div", {<<"class", "card">>}, ""),
      Leaf("p", {}, "Notice  board"),
      Leaf("h2", {}, "Notice"),
      Around("li", {}, <<Leaf("a", {<<"href", "/n">>}, "Notice  out")>>),
      Leaf("img", {<<"src", "/a.png">>, <<"data-src", "/b.png">>, <<"alt", " notice ">>}, ""),
      Leaf("img", {<<"data-src", "//cdn.x.com/a.png">>, <<"data-lazy-src", "/l.png">>,
                   <<"alt", "notice">>}, ""),
      Leaf("img", {<<"alt", "notice">>}, ""),
      Leaf("img", {<<"src", "">>, <<"data-original", "/o.png">>, <<"data-url", "/u.png">>,
                   <<"alt", "notice">>}, "") }

\* The calls made, each with one choice of arguments.
Calls ==
    { [op |-> "search_text_by_keyword", args |-> <<"notice">>],
      [op |-> "list_all_images", args |-> <<>>],
      [op |-> "search_image_by_keyword", args |-> <<"notice">>],
      [op |-> "search_link_by_keyword", args |-> <<"notice">>],
      [op |-> "scrape_section_by_heading", args |-> <<"notice">>],
      [op |-> "scrape_result_list", args |-> <<"", "li">>],
      [op |-> "scrape_card_results", args |-> <<"">>] }

ParseCalls == \E n \in CallNodes : StartTag(n, MaxCallReads)

NextCalls ==
    \/ ParseCalls
    \/ EndTag
    \/ SearchText("notice")
    \/ ListImages
    \/ SearchImage("notice")
    \/ SearchLink("notice")
    \/ ScrapeSection("notice")
    \/ ScrapeResultList("", "li")
    \/ ScrapeCards("")
    \/ Again
    \/ \E c \in Calls : FetchFails(c.op, c.args)

SpecCalls == Init /\ [][NextCalls]_vars

(***************************************************************************)
(* Unsupervised scoring over pages of whole lists: so many items, so many  *)
(* of them linked, so many with a result keyword from some item on.        *)
(***************************************************************************)
MaxScoreLists == 2

\* <ul> with n items: the first `links` are <li><a href="/r">text</a></li>,
\* the others <li>text</li>; the text is "exam" for the `kws` items from
\* item `from` on and "page" for the others.
ScoreLists ==
    { [n |-> 2, links |-> 2, kws |-> 2, from |-> 1],
      [n |-> 3, links |-> 3, kws |-> 0, from |-> 1],
      [n |-> 3, links |-> 2, kws |-> 3, from |-> 1],
      [n |-> 3, links |-> 0, kws |-> 3, from |-> 1],
      [n |-> 4, links |-> 2, kws |-> 1, from |-> 1],
      [n |-> 4, links |-> 2, kws |-> 2, from |-> 3],
      [n |-> 5, links |-> 4, kws |-> 0, from |-> 1],
      [n |-> 6, links |-> 4, kws |-> 3, from |-> 4],
      [n |-> 9, links |-> 7, kws |-> 0, from |-> 1],
      [n |-> 10, links |-> 7, kws |-> 0, from |-> 1],
      [n |-> 10, links |-> 6, kws |-> 1, from |-> 1],
      [n |-> 10, links |-> 5, kws |-> 0, from |-> 1],
      [n |-> 10, links |-> 4, kws |-> 3, from |-> 1] }

\* The nodes of the items k..n of the list d whose ul is node `list`, as
\* they follow the nodes `nodes` of a tree that had `at` nodes before.
RECURSIVE ItemNodes(_, _, _, _, _)
ItemNodes(d, k, list, at, nodes) ==
    IF k > d.n THEN nodes
    ELSE LET text == IF d.from <= k /\ k < d.from + d.kws THEN "exam" ELSE "page"
             li == at + Len(nodes) + 1
         IN  ItemNodes(d, k + 1, list, at,
                 IF k <= d.links
                 THEN nodes \o <<[tag |-> "li", attrs |-> {}, text |-> "", parent |-> list],
                                 [tag |-> "a", attrs |-> {<<"href", "/r">>}, text |-> text,
                                  parent |-> li]>>
                 ELSE Append(nodes, [tag |-> "li", attrs |-> {}, text |-> text,
                                     parent |-> list]))

\* The parser reads a whole list at the top of the document.
ReadList(d) ==
    /\ call = NoCall
    /\ open = <<>>
    /\ read < MaxScoreLists
    /\ page' = page \o ItemNodes(d, 1, Len(page) + 1, Len(page),
                                 <<[tag |-> "ul", attrs |-> {}, text |-> "", parent |-> 0]>>)
    /\ read' = read + 1
    /\ UNCHANGED <<open, url, call, ret, loc, view, prev>>

ParseScore == \E d \in ScoreLists : ReadList(d)

NextScore ==
    \/ ParseScore
    \/ ScrapeResultList("", "")

SpecScore == Init /\ [][NextScore]_vars

(***************************************************************************)
(* Status derivation over pages of items whose text has a dash and a       *)
(* status word, one parenthetical group or two, both, or neither.          *)
(***************************************************************************)
MaxStatusItems == 3

StatusNodes ==
    { Leaf("li", {}, "Result 1 - Out"),
      Around("li", {}, <<Leaf("a", {<<"href", "/j">>}, "Job-start (Soon)")>>),
      Leaf("li", {}, "Admit card (New)"),
      Leaf("li", {}, "Exam (2024) (Postponed)"),
      Leaf("li", {}, "Exam form"),
      Leaf("li", {}, "Re-exam") }

NextStatus ==
    \/ \E n \in StatusNodes : StartTag(n, MaxStatusItems)
    \/ ScrapeResultList("", "li")

SpecStatus == Init /\ [][NextStatus]_vars

(***************************************************************************)
(* Card fields over pages of cards with a heading, a paragraph, a span,    *)
(* an anchor, and of a card of 51 words.                                   *)
(***************************************************************************)
MaxCardReads == 4

CardNodes ==
    { Container("div", {<<"class", "card">>}, ""),
      Leaf("h3", {}, "Job"),
      Leaf("p", {}, "Apply for the Job now"),
      Leaf("span", {}, "New  Job and one more Job"),
      Leaf("a", {<<"href", "/x">>}, "Notice"),
      Leaf("div", {<<"class", "card">>},
           "a a a a a a a a a a a a a a a a a a a a a a a a a a a a a a a a a a a a a a a a a a a a a a a a a a a") }

NextCards ==
    \/ \E n \in CardNodes : StartTag(n, MaxCardReads)
    \/ EndTag
    \/ ScrapeCards("")

SpecCards == Init /\ [][NextCards]_vars

(***************************************************************************)
(* Requests to /api/scrape over pages with texts, an image, an anchor and  *)
(* cards, and with the page out of reach.                                  *)
(***************************************************************************)
MaxApiReads == 3

ApiNodes ==
    { Leaf("p", {}, "Notice board"),
      Leaf("p", {}, "Not found: the notice of May"),
      Leaf("img", {<<"src", "/a.png">>, <<"alt", "notice">>}, ""),
      Leaf("a", {<<"href", "/n">>}, "notice"),
      Leaf("div", {<<"class", "card">>}, ""),
      Leaf("div", {<<"class", "card">>}, "Notice card") }

\* The requests: type, method, keyword.
Requests ==
    { <<"text", "keyword", "notice">>, <<"image", "keyword", "notice">>,
      <<"image", "list_all", "">>, <<"link", "", "notice">>, <<"card", "", "">> }

NextApi ==
    \/ \E n \in ApiNodes : StartTag(n, MaxApiReads)
    \/ \E r \in Requests : Scrape(r[1], r[2], r[3], TRUE)
    \/ \E r \in Requests : Scrape(r[1], r[2], r[3], FALSE)

SpecApi == Init /\ [][NextApi]_vars

(***************************************************************************)
(* The URL normalizers on their own, over page URLs with and without a     *)
(* path, a query and a fragment and over references of every form.         *)
(***************************************************************************)
BaseUrls ==
    { "https://example.com/page", "https://example.com/page#top",
      "https://example.com/dir/page?q=1", "https://example.com" }

References ==
    { "", "//cdn.x.com/a.png", "http://a.b/c", "https://a.b/c#f", "/", "/a.png", "/a?x=1",
      "#frag", "?x=1", "a.png", "a.png#f", "dir/a.png", "mailto:a@b.c",
      "javascript:void(0)", "data:abc", "tel:123" }

\* A call is made for a page at one of the URLs.
InitNormalize ==
    /\ page = <<>>
    /\ open = <<>>
    /\ read = 0
    /\ url \in BaseUrls
    /\ call = NoCall
    /\ ret = RetNone
    /\ loc = <<>>
    /\ view = NoView
    /\ prev = NoPrev

\* The call normalizes a reference it found, as a link or as an image.
Normalize(normalizer, value) ==
    /\ call = NoCall
    /\ call' = [op |-> normalizer, args |-> <<value>>]
    /\ ret' = RetStr(IF normalizer = "normalize_image_url"
                     THEN normalize_image_url(url, value)
                     ELSE normalize_link_url(url, value))
    /\ UNCHANGED <<page, open, read, url, loc, view, prev>>

NextNormalize ==
    \/ \E value \in References : Normalize("normalize_link_url", value)
    \/ \E value \in References : Normalize("normalize_image_url", value)

SpecNormalize == InitNormalize /\ [][NextNormalize]_vars

(***************************************************************************)
(* What a page offers for a keyword, as sets: the matches the searches     *)
(* are to report.                                                          *)
(***************************************************************************)
TextMatchSet(p, keyword) ==
    LET soup == Decompose(p)
        kw == Lower(keyword)
    IN  {GetText(soup, i, " ") : i \in {j \in 1..Len(soup) :
              soup[j].tag \in TextTags /\ Contains(Lower(GetText(soup, j, "")), kw)}}
        \cup {"[Image Alt Text] " \o Get(soup[i], "alt", "") : i \in {j \in 1..Len(soup) :
              /\ soup[j].tag = "img" /\ Get(soup[j], "alt", "") # ""
              /\ Contains(Lower(Get(soup[j], "alt", "")), kw)}}

LinkMatchSet(p, base, keyword) ==
    {normalize_link_url(base, Get(p[i], "href", "")) : i \in {j \in 1..Len(p) :
          /\ p[j].tag = "a" /\ Get(p[j], "href", "") # ""
          /\ LinkMatch(p, j, Lower(keyword))
          /\ ~StartsWith(Get(p[j], "href", ""), "javascript:")}}

ImageMatchSet(p, base, keyword) ==
    {normalize_image_url(base, ImgSource(p[i])) : i \in {j \in 1..Len(p) :
          /\ p[j].tag = "img" /\ ImgSource(p[j]) # ""
          /\ (ImgAttrMatch(p[j], Lower(keyword)) \/ ImgParentMatch(p, j, Lower(keyword)))}}

\* The result has the tri-state shape for the match set M.
TriState(M, message) ==
    /\ M = {} => ret = RetStr(message)
    /\ Cardinality(M) = 1 => ret.type = "str" /\ ret.str \in M
    /\ Cardinality(M) >= 2 =>
          ret.type = "list" /\ Range(ret.items) = M /\ Len(ret.items) = Cardinality(M)

\* C1: the keyword text search and the keyword link search return the
\* documented "Not found - ..." message naming the keyword when nothing
\* matches, the match itself as a bare string when exactly one thing
\* matches, and the sequence of all matches when two or more match.
C1_TriState ==
    /\ call.op = "search_text_by_keyword" =>
          TriState(TextMatchSet(page, call.args[1]), NotFoundText(call.args[1]))
    /\ call.op = "search_link_by_keyword" =>
          TriState(LinkMatchSet(page, url, call.args[1]), NotFoundLinks(call.args[1]))

\* A text search with exactly one distinct match, held by two elements.
C1_Witness ==
    /\ call.op = "search_text_by_keyword"
    /\ Cardinality(TextMatchSet(page, call.args[1])) = 1
    /\ Cardinality({i \in 1..Len(page) : page[i].tag \in TextTags
                        /\ Contains(Lower(GetText(page, i, "")), Lower(call.args[1]))}) = 2

\* C2 as stated: the keyword image search has the tri-state shape too (a
\* marker string for no image, a bare URL for one, a sequence for more).
C2_ImageTriState ==
    call.op = "search_image_by_keyword" =>
        LET M == ImageMatchSet(page, url, call.args[1])
        IN  /\ M = {} => ret.type = "str"
            /\ Cardinality(M) = 1 => ret.type = "str" /\ ret.str \in M
            /\ Cardinality(M) >= 2 => ret.type = "list" /\ Range(ret.items) = M

\* C2, amended: the keyword image search always returns a sequence, which
\* is empty for no matching image, holds the one URL for one matching
\* image, and holds each matching URL once for more.
C2_ImageAlwaysSequence ==
    call.op = "search_image_by_keyword" =>
        LET M == ImageMatchSet(page, url, call.args[1])
        IN  /\ ret.type = "list"
            /\ Range(ret.items) = M
            /\ Len(ret.items) = Cardinality(M)

\* An image search with exactly one matching image.
C2_Witness ==
    /\ call.op = "search_image_by_keyword"
    /\ Cardinality(ImageMatchSet(page, url, call.args[1])) = 1
    /\ Len(ret.items) = 1

\* C3: no sequence returned by the keyword text search, list-all-images,
\* the keyword image search or the keyword link search holds two equal
\* entries.
C3_NoDuplicates ==
    (call.op \in {"search_text_by_keyword", "list_all_images",
                  "search_image_by_keyword", "search_link_by_keyword"}
     /\ ret.type = "list") => NoDup(ret.items)

\* An image search in which one image qualifies by its attributes and by
\* its ancestor's text, and a second image has the same normalized URL.
C3_Witness ==
    /\ call.op = "search_image_by_keyword"
    /\ \E i, j \in 1..Len(page) :
          /\ i # j /\ page[i].tag = "img" /\ page[j].tag = "img"
          /\ ImgAttrMatch(page[i], Lower(call.args[1]))
          /\ ImgParentMatch(page, i, Lower(call.args[1]))
          /\ ImgSource(page[i]) # ImgSource(page[j])
          /\ normalize_image_url(url, ImgSource(page[i]))
                = normalize_image_url(url, ImgSource(page[j]))
          /\ ImgAttrMatch(page[j], Lower(call.args[1]))
    /\ Len(ret.items) = 1

(***************************************************************************)
(* Section extraction.                                                     *)
(***************************************************************************)
IsSectionCall == call.op = "scrape_section_by_heading"

\* The tree the call scanned.
Soup == Decompose(page)

\* The first h2/h3 after node t in document order (0: none).
NextHeading(soup, t) ==
    LET hs == {i \in (t + 1)..Len(soup) : soup[i].tag \in HeadingTags}
    IN  IF hs = {} THEN 0 ELSE CHOOSE i \in hs : \A j \in hs : i <= j

\* The last node of e's subtree.
SubtreeLast(soup, e) ==
    CHOOSE i \in e..Len(soup) :
        /\ (i = e \/ IsDesc(soup, e, i))
        /\ \A j \in (i + 1)..Len(soup) : ~IsDesc(soup, e, j)

\* A block element with text of its own or of its descendants.
HasBlockText(soup, e) == soup[e].tag \in BlockTags /\ GetText(soup, e, " ") # ""

\* C6: the returned section holds only content located between the target
\* heading and the next h2/h3 after it: every element whose text went
\* into the section lies, with all of its descendants, after the target
\* and before that next heading.
C6_OnlyUpToNextHeading ==
    (IsSectionCall /\ loc.exit = "content") =>
        LET n == NextHeading(Soup, loc.target)
        IN  \A k \in 1..Len(loc.collected) :
                /\ loc.collected[k] > loc.target
                /\ n # 0 => SubtreeLast(Soup, loc.collected[k]) < n

HeadingMatches(soup, keyword) ==
    \E i \in 1..Len(soup) :
        soup[i].tag \in {"h2", "h3"} /\ Contains(Lower(GetText(soup, i, "")), Lower(keyword))

\* C8: the result is the "Not found - No heading containing ..." message
\* exactly when no h2/h3 has text containing the keyword; when one has,
\* the result is section content or the "Found heading ... but no content
\* found below it" message naming a matching heading.
C8_NotFoundIffNoHeading ==
    IsSectionCall =>
        LET kw == call.args[1]
        IN  /\ ret.type = "str"
            /\ (ret.str = NotFoundHeading(kw)) <=> ~HeadingMatches(Soup, kw)
            /\ (loc.exit = "not_found") <=> ~HeadingMatches(Soup, kw)
            /\ HeadingMatches(Soup, kw) =>
                  \/ loc.exit = "content" /\ ~StartsWith(ret.str, "Found heading '")
                  \/ /\ loc.exit = "no_content"
                     /\ \E i \in 1..Len(Soup) :
                           /\ Soup[i].tag \in {"h2", "h3"}
                           /\ Contains(Lower(GetText(Soup, i, "")), Lower(kw))
                           /\ ret.str = NoContentBelow(GetText(Soup, i, ""))

\* An h3 matches the keyword, an h1 with the same text does not count, and
\* nothing long enough follows: the "Found heading" message.
C8_Witness ==
    /\ IsSectionCall /\ loc.exit = "no_content"
    /\ Soup[loc.target].tag = "h3"
    /\ loc.collected # <<>>

(***************************************************************************)
(* Record sequences and emitted URLs.                                      *)
(***************************************************************************)
IsListCall == call.op = "scrape_result_list"
IsCardCall == call.op = "scrape_card_results"

\* C4: in every record sequence returned by scrape_result_list or
\* scrape_card_results the index fields of the n records are 1, 2, ..., n
\* in order, whatever candidates were filtered out.
C4_DenseIndex ==
    ((IsListCall \/ IsCardCall) /\ ret.type = "list") =>
        \A k \in 1..Len(ret.items) : ret.items[k].index = k

\* The link and image values a call emitted.
EmittedUrls ==
    IF call.op = "search_link_by_keyword"
    THEN IF ret.type = "list" THEN Range(ret.items)
         ELSE IF ret.str # NotFoundLinks(call.args[1]) THEN {ret.str} ELSE {}
    ELSE IF call.op \in {"list_all_images", "search_image_by_keyword"} THEN Range(ret.items)
    ELSE IF IsListCall /\ ret.type = "list"
    THEN {ret.items[k].link : k \in 1..Len(ret.items)}
    ELSE IF IsCardCall /\ ret.type = "list"
    THEN {ret.items[k].link : k \in 1..Len(ret.items)}
         \cup {ret.items[k].image : k \in 1..Len(ret.items)}
    ELSE {}

IsHttp(v) == StartsWith(v, "http://") \/ StartsWith(v, "https://")

\* The attribute values of the page.
AttrValues == {a[2] : a \in UNION {page[i].attrs : i \in 1..Len(page)}}

\* C5 as stated: every emitted link or image value is empty or begins
\* with http:// or https://.
C5_EmptyOrHttp == \A v \in EmittedUrls : v = "" \/ IsHttp(v)

\* C5, amended: every emitted link or image value is empty, or begins with
\* http:// or https://, or is an attribute's own value that carries a
\* scheme of its own (mailto:, javascript:, ...); a value without a scheme
\* (a relative form) is never emitted.
C5_EmptyHttpOrOwnScheme ==
    \A v \in EmittedUrls :
        \/ v = ""
        \/ IsHttp(v)
        \/ Scheme(v) # "" /\ v \in AttrValues

\* A link search that returns a mailto: reference as it stands next to a
\* relative reference resolved against the page's URL.
C5_Witness ==
    /\ call.op = "search_link_by_keyword"
    /\ "mailto:a@b.c" \in EmittedUrls
    /\ "https://example.com/r2" \in EmittedUrls
    /\ "r2" \in AttrValues

(***************************************************************************)
(* Result lists without lists, and without records.                        *)
(***************************************************************************)
\* The page has no ul and no ol, and the call names no section and no
\* selector.
NoListsNoArgs ==
    /\ IsListCall /\ call.args = <<"", "">>
    /\ \A i \in 1..Len(page) : page[i].tag \notin ListTags

\* C9 as stated: without ul/ol and without section name and selector the
\* result is the advisory string, never a sequence.
C9_AdvisoryWithoutLists == NoListsNoArgs => ret = RetStr(Advisory)

\* The texts an item can give its record: its own, or its first anchor's.
ItemTexts(items) ==
    {GetText(page, items[k], "") : k \in 1..Len(items)}
    \cup {GetText(page, FindAnchor(page, items[k]), "") :
             k \in {j \in 1..Len(items) : FindAnchor(page, items[j]) # 0}}

\* C9, amended: without ul/ol and without section name and selector the
\* result is the advisory string, or else the non-empty record sequence
\* of the heading fallback, taken from at least three li or a elements
\* that are children of one element (or of the document); it is never an
\* empty sequence.
C9_AdvisoryOrHeadingFallback ==
    NoListsNoArgs =>
        \/ ret = RetStr(Advisory)
        \/ /\ ret.type = "list" /\ ret.items # <<>> /\ loc.strategy = "heading"
           /\ FallbackHeadings(page) # <<>>
           /\ \E e \in 0..Len(page) :
                 LET c == Children(page, e, {"li", "a"})
                 IN  /\ Len(c) >= 3
                     /\ \A k \in 1..Len(ret.items) :
                           /\ ret.items[k].index \in 1..Len(c)
                           /\ ret.items[k].text \in ItemTexts(c)

\* A page without ul/ol whose heading fallback returned records.
C9_Witness == NoListsNoArgs /\ ret.type = "list" /\ loc.strategy = "heading"

\* C10 as stated: whenever the call ends without records its result is
\* the advisory string, and it is never an empty sequence.
C10_AdvisoryWhenNoRecords ==
    IsListCall =>
        /\ ret.type = "list" => ret.items # <<>>
        /\ ret.type # "list" => ret = RetStr(Advisory)

\* C10, amended: whenever the call ends without records its result is the
\* advisory string, except that when a selector was given and selected
\* elements none of which gave a record the result is the "Found elements
\* but could not extract data from them." string; it is never an empty
\* sequence.
C10_AdvisoryUnlessSelectorMatched ==
    IsListCall =>
        /\ ret.type \in {"list", "str"}
        /\ ret.type = "list" => ret.items # <<>>
        /\ ret.type = "str" =>
              IF call.args[2] # "" /\ Select(page, 0, call.args[2]) # <<>>
              THEN ret.str = FoundNoData
              ELSE ret.str = Advisory

\* A selector that selects elements without content on a page where the
\* call without the selector returns the advisory string.
C10_Witness ==
    /\ IsListCall /\ call.args[2] # "" /\ ret = RetStr(FoundNoData)
    /\ Select(page, 0, call.args[2]) # <<>>
    /\ \E i \in 1..Len(page) : page[i].tag = "h2"

(***************************************************************************)
(* Records without content.                                                *)
(***************************************************************************)
\* C11: no record of a sequence returned by scrape_result_list has both an
\* empty title and an empty text, whichever strategy returned.
C11_NoEmptyListRecord ==
    (IsListCall /\ ret.type = "list") =>
        \A k \in 1..Len(ret.items) : ret.items[k].title # "" \/ ret.items[k].text # ""

\* A strategy other than the selector returned records of a list or of a
\* heading's neighbours from which an item without content was left out.
C11_Witness ==
    /\ IsListCall /\ ret.type = "list"
    /\ loc.strategy \in {"section", "scoring", "heading"}
    /\ \E i \in 1..Len(page) :
          /\ page[i].tag = "li" /\ GetText(page, i, "") = ""
          /\ \E k \in 1..Len(ret.items) : ret.items[k].index > 1
    /\ \A k \in 1..Len(ret.items) : ret.items[k].index # 1

\* C12: no card of a sequence returned by scrape_card_results has an empty
\* title, an empty description and an empty link; when every candidate
\* card is discarded the result is a message string, never an empty
\* sequence.
C12_NoEmptyCardRecord ==
    IsCardCall =>
        /\ ret.type \in {"list", "str"}
        /\ ret.type = "list" =>
              /\ ret.items # <<>>
              /\ \A k \in 1..Len(ret.items) :
                    \/ ret.items[k].title # ""
                    \/ ret.items[k].description # ""
                    \/ ret.items[k].link # ""
        /\ (loc.items # <<>> /\ \A k \in 1..Len(loc.items) :
                                   GetText(page, loc.items[k], "") = ""
                                   /\ FindAnchor(page, loc.items[k]) = 0)
              => ret = RetStr(CardsNoData)

\* Card elements were found and every one of them was discarded.
C12_Witness ==
    /\ IsCardCall /\ Len(loc.items) >= 2 /\ ret = RetStr(CardsNoData)


(***************************************************************************)
(* Calls made once, made again and made when the request fails.            *)
(***************************************************************************)
IsTextCall == call.op = "search_text_by_keyword"

\* No whitespace at either end and no two whitespace characters in a row.
Normalized(s) ==
    /\ Strip(s) = s
    /\ \A i \in 1..(Len(s) - 1) : ~(IsSpace(Char(s, i)) /\ IsSpace(Char(s, i + 1)))

\* The text fields in the value the last call returned: the matches of a
\* text search, the content of a section, the title, text and status of
\* list records, the title and description of card records.
EmittedTexts ==
    IF IsTextCall
    THEN IF ret.type = "list" THEN Range(ret.items)
         ELSE IF ret.type = "str" /\ ret # RetStr(NotFoundText(call.args[1]))
         THEN {ret.str} ELSE {}
    ELSE IF IsSectionCall
    THEN IF view.fetched = "tree" /\ loc.exit = "content" THEN {ret.str} ELSE {}
    ELSE IF IsListCall /\ ret.type = "list"
    THEN UNION {{ret.items[k].title, ret.items[k].text, ret.items[k].status} :
                   k \in 1..Len(ret.items)}
    ELSE IF IsCardCall /\ ret.type = "list"
    THEN UNION {{ret.items[k].title, ret.items[k].description} : k \in 1..Len(ret.items)}
    ELSE {}

\* C13: every text field a call emits is whitespace-normalized: it has no
\* leading or trailing whitespace and no run of two or more whitespace
\* characters inside.
C13_TextsNormalized == \A s \in EmittedTexts : Normalized(s)

Visible(tree) ==
    LET idx == InOrder({i \in 1..Len(tree) :
                  /\ tree[i].tag \notin {"script", "style"}
                  /\ \A j \in 1..Len(tree) :
                        tree[j].tag \in {"script", "style"} => ~IsDesc(tree, j, i)})
    IN  [k \in 1..Len(idx) |-> [tag |-> tree[idx[k]].tag, text |-> tree[idx[k]].text]]

\* C15: after a call the tree obtained for the call still contains the
\* same elements, script and style included, as before the call.
C15_TreeUntouched == view.fetched = "tree" => view.left = view.given

\* C15, amended: search_text_by_keyword and scrape_section_by_heading
\* remove the script and style elements from the tree the call obtained,
\* in place, and leave every other element where it was; the other calls
\* leave their tree as they got it.  The tree is the call's own: the
\* document the page was parsed from is as it was.
C15_OwnTreeLosesScripts ==
    view.fetched = "tree" =>
        /\ view.given = page
        /\ IF call.op \in {"search_text_by_keyword", "scrape_section_by_heading"}
           THEN /\ \A i \in 1..Len(view.left) : view.left[i].tag \notin {"script", "style"}
                /\ Visible(view.left) = Visible(view.given)
           ELSE view.left = view.given

\* A section was extracted from a page with a script in it.
C15_Witness ==
    /\ IsSectionCall
    /\ view.fetched = "tree"
    /\ loc.exit = "content"
    /\ \E i \in 1..Len(view.given) : view.given[i].tag = "script"

\* C16: a call whose request for the document failed fails outright: it
\* returns neither None nor an empty list nor a message string.
C16_FailurePropagated == view.fetched = "failed" => ret.type = "raised"

\* The attributes an img's URL is looked for in, in this order.
SourceAttrs == <<"src", "data-src", "data-lazy-src", "data-original", "data-url">>

\* The value of the first of the attributes that the img has, "" when it has none.
FirstPresent(n) ==
    LET has == {k \in 1..Len(SourceAttrs) : HasAttr(n, SourceAttrs[k])}
    IN  IF has = {} THEN ""
        ELSE Get(n, SourceAttrs[CHOOSE k \in has : \A j \in has : k <= j], "")

\* The value of the first of the attributes that the img has with a
\* value other than "", "" when it has none.
FirstNonEmptySource(n) ==
    LET has == {k \in 1..Len(SourceAttrs) : Get(n, SourceAttrs[k], "") # ""}
    IN  IF has = {} THEN ""
        ELSE Get(n, SourceAttrs[CHOOSE k \in has : \A j \in has : k <= j], "")

\* The imgs of the page by document order.
Imgs == FindAll(page, 0, {"img"})

\* What list_all_images is to return when the URL of each img is src(img):
\* the normalized URLs in document order, imgs without one skipped, a URL
\* listed once.
ImageList(src(_)) ==
    LET with == SelectSeq(Imgs, LAMBDA i : src(page[i]) # "")
        urls == [k \in 1..Len(with) |->
                    IF StartsWith(src(page[with[k]]), "//")
                    THEN "https:" \o src(page[with[k]])
                    ELSE "https://example.com" \o src(page[with[k]])]
    IN  SelectSeq([k \in 1..Len(urls) |-> IF \E j \in 1..(k - 1) : urls[j] = urls[k]
                                            THEN "" ELSE urls[k]],
                  LAMBDA u : u # "")

IsImagesCall == call.op = "list_all_images" /\ view.fetched = "tree"

\* C17: the URL of an img is the value of the first present attribute in
\* the order src, data-src, data-lazy-src, data-original, data-url,
\* normalized; an img with none of them is skipped.
C17_FirstPresentAttribute ==
    IsImagesCall => ret = RetList(ImageList(FirstPresent))

\* C17, amended: the URL of an img is the value of the first of these
\* attributes that is present with a non-empty value, normalized; an img
\* where none is, is skipped.  <img data-src="//cdn.x.com/a.png"> gives
\* https://cdn.x.com/a.png, <img src="/a.png"> gives
\* https://example.com/a.png, also when a later attribute is present too.
C17_FirstNonEmptyAttribute ==
    IsImagesCall => ret = RetList(ImageList(FirstNonEmptySource))

\* The page has an img with src and data-src, one with data-src and
\* data-lazy-src, and one with none of the attributes; two URLs are listed.
C17_Witness ==
    /\ IsImagesCall
    /\ \E i \in 1..Len(page) : HasAttr(page[i], "src") /\ HasAttr(page[i], "data-src")
    /\ \E i \in 1..Len(page) : page[i].tag = "img" /\ FirstPresent(page[i]) = ""
    /\ ret = RetList(<<"https://example.com/a.png", "https://cdn.x.com/a.png">>)

(***************************************************************************)
(* The order of the matches of a text search.                              *)
(***************************************************************************)
\* The text elements of the page whose text matches the keyword and is t.
TextSources(t) ==
    {i \in 1..Len(Soup) :
        /\ Soup[i].tag \in TextTags
        /\ Contains(Lower(GetText(Soup, i, "")), Lower(call.args[1]))
        /\ GetText(Soup, i, " ") = t}

\* The imgs of the page whose alt matches the keyword and gives the entry t.
AltSources(t) ==
    {i \in 1..Len(Soup) :
        /\ Soup[i].tag = "img"
        /\ Get(Soup[i], "alt", "") # ""
        /\ Contains(Lower(Get(Soup[i], "alt", "")), Lower(call.args[1]))
        /\ "[Image Alt Text] " \o Get(Soup[i], "alt", "") = t}

\* The first element of a non-empty set of elements by document order.
Earliest(S) == CHOOSE i \in S : \A j \in S : i <= j

IsTextList == IsTextCall /\ view.fetched = "tree" /\ ret.type = "list"

\* C18: of any two entries of the sequence a text search returns, the one
\* whose source element (text element or img with a matching alt) comes
\* earlier in the document comes earlier in the sequence.
C18_DocumentOrder ==
    IsTextList =>
        \A a, b \in 1..Len(ret.items) :
            a < b => Earliest(TextSources(ret.items[a]) \cup AltSources(ret.items[a]))
                       < Earliest(TextSources(ret.items[b]) \cup AltSources(ret.items[b]))

\* C18, amended: the sequence holds the texts of the matching text
\* elements, by document order of the first element with that text, and
\* after all of them the entries of the imgs with a matching alt, by
\* document order of the first img with that alt.
C18_TextsThenAlts ==
    IsTextList =>
        \A a, b \in 1..Len(ret.items) :
            a < b =>
                LET ta == TextSources(ret.items[a])
                    tb == TextSources(ret.items[b])
                IN  \/ ta # {} /\ tb # {} /\ Earliest(ta) < Earliest(tb)
                    \/ ta # {} /\ tb = {} /\ AltSources(ret.items[b]) # {}
                    \/ /\ ta = {} /\ tb = {}
                       /\ AltSources(ret.items[a]) # {} /\ AltSources(ret.items[b]) # {}
                       /\ Earliest(AltSources(ret.items[a])) < Earliest(AltSources(ret.items[b]))

\* An img with a matching alt stands before two matching text elements.
C18_Witness ==
    /\ IsTextList
    /\ Len(ret.items) = 3
    /\ AltSources(ret.items[3]) = {1}
    /\ TextSources(ret.items[1]) # {}
    /\ TextSources(ret.items[2]) # {}

(***************************************************************************)
(* Unsupervised scoring.                                                   *)
(***************************************************************************)
\* The direct li children of node l, by document order.
ItemsOf(l) == InOrder({i \in 1..Len(page) : page[i].tag = "li" /\ page[i].parent = l})

\* The item contains a link; its text contains a result-domain keyword.
Linked(i) ==
    \E j \in 1..Len(page) : page[j].tag = "a" /\ HasAttr(page[j], "href") /\ IsDesc(page, i, j)
Keyworded(i) ==
    \E w \in {"result", "admit", "card", "exam", "job", "notification", "form", "out", "start"} :
        Contains(Lower(GetText(page, i, "")), w)

\* The points of the list l as C19 counts them.
Points(l) ==
    LET items == ItemsOf(l)
        n == Len(items)
        linked == Cardinality({k \in 1..n : Linked(items[k])})
        keyworded == Cardinality({k \in 1..n : k <= 5 /\ Keyworded(items[k])})
    IN  (IF 100 * linked >= 70 * n THEN 3 ELSE IF 100 * linked >= 50 * n THEN 2 ELSE 0)
        + (IF keyworded >= 3 THEN 2 ELSE IF keyworded >= 2 THEN 1 ELSE 0)
        + (IF n >= 10 THEN 1 ELSE 0)

\* The lists with at least 3 direct items and at least 3 points, and among
\* them the earliest of those with the most points.
Qualifying ==
    {l \in 1..Len(page) : page[l].tag \in {"ul", "ol"} /\ Len(ItemsOf(l)) >= 3 /\ Points(l) >= 3}
Chosen ==
    CHOOSE l \in Qualifying :
        \A m \in Qualifying : Points(m) < Points(l) \/ (Points(m) = Points(l) /\ l <= m)

IsUnsupervised == IsListCall /\ view.fetched = "tree" /\ call.args = <<"", "">>

\* C19: without section name and selector scrape_result_list considers the
\* ul/ol with at least 3 direct li children, gives each +3 if at least 70%
\* of its items contain a link, else +2 if at least 50% do, +2 if at least
\* 3 of its first 5 items contain a result keyword, else +1 if at least 2
\* do, and +1 if it has at least 10 items, keeps those with at least 3
\* points, and extracts the records from the one with the most points, the
\* earliest in the document among equals.
C19_HighestScoreEarliest ==
    IsUnsupervised =>
        IF Qualifying = {} THEN loc.strategy # "scoring"
        ELSE /\ loc.strategy = "scoring"
             /\ loc.items = ItemsOf(Chosen)
             /\ ret.type = "list"
             /\ Len(ret.items) = Len(ItemsOf(Chosen))

\* A 5-item list with 4 linked items qualifies and is followed by a list
\* with more points, from which the records are taken.
C19_Witness ==
    /\ IsUnsupervised
    /\ loc.strategy = "scoring"
    /\ Cardinality(Qualifying) = 2
    /\ \E l \in Qualifying :
          /\ l < Chosen
          /\ Len(ItemsOf(l)) = 5
          /\ Cardinality({k \in 1..5 : Linked(ItemsOf(l)[k])}) = 4
    /\ Len(ret.items) = Len(ItemsOf(Chosen))

(***************************************************************************)
(* The order of the strategies of scrape_result_list.                      *)
(***************************************************************************)
\* What each strategy yields on the page for the arguments of the call:
\* the elements the selector selects and their records, the records of
\* the named section's list, of the best-scoring list, of the heading
\* fallback.
SelectorItems == IF call.args[2] # "" THEN Select(page, 0, call.args[2]) ELSE <<>>
SelectorRecords ==
    IF SelectorItems # <<>> THEN Records(page, url, SelectorItems, 1, <<>>) ELSE <<>>
NamedList == IF call.args[1] # "" THEN SectionList(page, call.args[1]) ELSE 0
SectionRecords ==
    IF NamedList # 0 THEN Records(page, url, Items(page, NamedList), 1, <<>>) ELSE <<>>
ScoringRecords ==
    IF BestList(page) # 0 THEN Records(page, url, Items(page, BestList(page)), 1, <<>>)
    ELSE <<>>
FallbackRecords == HeadingFallback(page, url, FallbackHeadings(page))

IsListResult == IsListCall /\ view.fetched = "tree"

MatchingHeadings ==
    {i \in 1..Len(Soup) :
        /\ Soup[i].tag \in {"h2", "h3"}
        /\ Contains(Lower(GetText(Soup, i, "")), Lower(call.args[1]))}

IsSectionResult == IsSectionCall /\ view.fetched = "tree"

\* C21: the target heading is the first h2/h3 in document order whose
\* lower-cased text contains the keyword: no matching h2/h3 stands before
\* it, and an h1 or h4-h6 is never the target.
C21_FirstMatchingH2H3 ==
    IsSectionResult =>
        IF MatchingHeadings = {} THEN loc.target = 0
        ELSE /\ loc.target \in MatchingHeadings
             /\ \A i \in MatchingHeadings : loc.target <= i

\* A matching h1 stands before the target, a matching h2/h3 after it.
C21_Witness ==
    /\ IsSectionResult
    /\ loc.target # 0
    /\ \E i \in 1..(loc.target - 1) :
          /\ Soup[i].tag = "h1"
          /\ Contains(Lower(GetText(Soup, i, "")), Lower(call.args[1]))
    /\ \E i \in MatchingHeadings : i > loc.target

\* The fragments of the elements the call collected, each with its
\* whitespace collapsed, and those of them that are longer than 10
\* characters and equal to no fragment before them.
Fragments ==
    [k \in 1..Len(loc.collected) |-> Join(" ", Split(GetText(Soup, loc.collected[k], " ")))]
Survivors ==
    LET keep == InOrder({k \in 1..Len(Fragments) :
                    /\ Len(Fragments[k]) > 10
                    /\ \A j \in 1..(k - 1) : Fragments[j] # Fragments[k]})
    IN  [k \in 1..Len(keep) |-> Fragments[keep[k]]]

\* C22: returned section content is the single-space join of the
\* fragments that are whitespace-collapsed, longer than 10 characters and
\* distinct from one another, first occurrence kept; when a heading was
\* found and no fragment survives, the result is the "Found heading ...
\* but no content found below it" message.
C22_JoinOfSurvivors ==
    (IsSectionResult /\ loc.target # 0) =>
        /\ \A k \in 1..Len(Survivors) : Normalized(Survivors[k]) /\ Len(Survivors[k]) > 10
        /\ NoDup(Survivors)
        /\ IF Survivors # <<>>
           THEN loc.exit = "content" /\ ret = RetStr(Join(" ", Survivors))
           ELSE /\ loc.exit = "no_content"
                /\ ret = RetStr(NoContentBelow(GetText(Soup, loc.target, "")))

\* Two fragments survive; a fragment of at most 10 characters, a repeated
\* fragment and a fragment with two spaces in a row were collected.
C22_Witness ==
    /\ IsSectionResult /\ loc.target # 0 /\ loc.exit = "content"
    /\ Len(Survivors) = 2
    /\ \E k \in 1..Len(Fragments) : Len(Fragments[k]) <= 10
    /\ ~NoDup(Fragments)
    /\ \E k \in 1..Len(loc.collected) : ~Normalized(GetText(Soup, loc.collected[k], " "))

(***************************************************************************)
(* Script links in the keyword link search.                                *)
(***************************************************************************)
\* The links the last call returned.
EmittedLinks ==
    IF call.op = "search_link_by_keyword" /\ view.fetched = "tree"
    THEN IF ret.type = "list" THEN Range(ret.items)
         ELSE IF ret.type = "str" /\ ret # RetStr(NotFoundLinks(call.args[1]))
         THEN {ret.str} ELSE {}
    ELSE {}

\* C23: the keyword link search emits no link that begins with the script
\* pseudo-protocol javascript:, whatever the letter case of the href and
\* whatever whitespace leads it.
C23_NoScriptLinks ==
    \A u \in EmittedLinks : ~StartsWith(Lower(LStrip(u)), "javascript:")

(***************************************************************************)
(* One normalization rule for links and images.                            *)
(***************************************************************************)
\* The rule of C24 for the reference v on the page at base.
SharedRule(base, v) ==
    IF v = "" THEN ""
    ELSE IF StartsWith(v, "//") THEN "https:" \o v
    ELSE IF StartsWith(v, "http://") \/ StartsWith(v, "https://") THEN v
    ELSE IF StartsWith(v, "#") THEN base \o v
    ELSE UrlJoin(base, v)

IsNormalizeCall == call.op \in {"normalize_link_url", "normalize_image_url"}

\* C24: the link normalizers and the image normalizers apply one rule
\* (// gets the prefix https:, http:// and https:// stay, # is appended to
\* the base URL, anything else is resolved against the base URL) and give
\* the same output for the same value and base.
C24_OneRule ==
    IsNormalizeCall =>
        /\ ret.str = SharedRule(url, call.args[1])
        /\ normalize_image_url(url, call.args[1]) = normalize_link_url(url, call.args[1])

\* C24, amended: the link normalizers apply that rule; the image
\* normalizers have no case for #: they resolve such a value against the
\* base URL like any other, which puts it in the place of the base URL's
\* own fragment.  The two give the same output except for a value
\* starting with # on a base URL that has a fragment.
C24_OneRuleButHash ==
    IsNormalizeCall =>
        /\ call.op = "normalize_link_url" => ret.str = SharedRule(url, call.args[1])
        /\ call.op = "normalize_image_url" =>
              ret.str = IF StartsWith(call.args[1], "#")
                        THEN NoFragment(url) \o call.args[1]
                        ELSE SharedRule(url, call.args[1])
        /\ (normalize_image_url(url, call.args[1]) = normalize_link_url(url, call.args[1]))
              <=> ~(StartsWith(call.args[1], "#") /\ Contains(url, "#"))

\* An image reference #frag on a page whose URL ends in #top.
C24_Witness ==
    /\ call.op = "normalize_image_url"
    /\ call.args = <<"#frag">>
    /\ url = "https://example.com/page#top"
    /\ ret.str = "https://example.com/page#frag"

(***************************************************************************)
(* The status of a list record.                                            *)
(***************************************************************************)
\* The positions of t at which a status word stands that a dash precedes,
\* with nothing but whitespace between the dash and the word.
AfterDash(t) ==
    {q \in 2..Len(t) :
        /\ \E w \in {"Out", "Final Result", "Start", "Last Date", "Date Extend", "Reminder",
                      "Booking"} :
              q + Len(w) - 1 <= Len(t) /\ Lower(SubSeq(t, q, q + Len(w) - 1)) = Lower(w)
        /\ \E d \in 1..(q - 1) :
              Char(t, d) = "-" /\ \A i \in (d + 1)..(q - 1) : IsSpace(Char(t, i))}

\* The status word at position q of t, as t writes it.
WordFrom(t, q) ==
    LET w == CHOOSE w \in {"Out", "Final Result", "Start", "Last Date", "Date Extend",
                            "Reminder", "Booking"} :
                q + Len(w) - 1 <= Len(t) /\ Lower(SubSeq(t, q, q + Len(w) - 1)) = Lower(w)
    IN  SubSeq(t, q, q + Len(w) - 1)

\* The content of the parenthetical group t ends with ("" when t ends with none).
TrailingGroup(t) ==
    LET opens == {o \in 1..Len(t) : Char(t, o) = "("}
    IN  IF EndsWith(t, ")") /\ opens # {}
        THEN SubSeq(t, (CHOOSE o \in opens : \A x \in opens : x <= o) + 1, Len(t) - 1)
        ELSE ""

\* C25: the status of a list record is the status word after a dash of
\* its text, as the text writes it; otherwise the content of the
\* parenthetical group the text ends with; otherwise empty.
C25_DashElseTrailingGroup ==
    (IsListCall /\ view.fetched = "tree" /\ ret.type = "list") =>
        \A k \in 1..Len(ret.items) :
            ret.items[k].status =
                IF AfterDash(ret.items[k].text) # {}
                THEN WordFrom(ret.items[k].text, Earliest(AfterDash(ret.items[k].text)))
                ELSE TrailingGroup(ret.items[k].text)

(***************************************************************************)
(* The description and the text of a card record.                          *)
(***************************************************************************)
IsCardList == IsCardCall /\ view.fetched = "tree" /\ ret.type = "list"

\* The card element of the k-th record, its full text, and whether a
\* description pattern selects an element with text inside it.
CardAt(k) == loc.items[ret.items[k].index]
FullText(k) == GetText(page, CardAt(k), " ")
HasDescription(k) == DescElem(page, CardAt(k)) # 0

\* The text of the element a title pattern selects in the k-th card ("":
\* none).
PatternTitle(k) == TextOf(page, TitleElem(page, CardAt(k)))

\* The first 50 words, and all the words, joined by single spaces.
FirstFifty(words) == Join(" ", SubSeq(words, 1, IF Len(words) < 50 THEN Len(words) ELSE 50))
AllWords(words) == Join(" ", words)

\* C26: without a matching description pattern the description is the
\* first 50 words of the card's full text with the first occurrence of
\* the record's title removed, and the text is that full text uncut; with
\* a matching description pattern the text equals the description.
C26_TitleRemoved ==
    IsCardList =>
        \A k \in 1..Len(ret.items) :
            IF HasDescription(k) THEN ret.items[k].text = ret.items[k].description
            ELSE /\ ret.items[k].description
                      = FirstFifty(Split(RemoveFirst(FullText(k), ret.items[k].title)))
                 /\ ret.items[k].text
                      = AllWords(Split(RemoveFirst(FullText(k), ret.items[k].title)))

\* C26, amended: what is removed from the full text is the text of the
\* element a title pattern selected; a title that was taken from the
\* card's link or first line, no title pattern matching, is not removed.
C26_PatternTitleRemoved ==
    IsCardList =>
        \A k \in 1..Len(ret.items) :
            IF HasDescription(k) THEN ret.items[k].text = ret.items[k].description
            ELSE /\ ret.items[k].description
                      = FirstFifty(Split(RemoveFirst(FullText(k), PatternTitle(k))))
                 /\ ret.items[k].text
                      = AllWords(Split(RemoveFirst(FullText(k), PatternTitle(k))))
                 /\ StartsWith(ret.items[k].text, ret.items[k].description)

\* A card of 51 words whose description has 50, and a card whose title by
\* pattern was removed once from a text that holds it three times.
C26_Witness ==
    /\ IsCardList
    /\ \E k \in 1..Len(ret.items) :
          /\ ~HasDescription(k)
          /\ Len(Split(ret.items[k].text)) = 51
          /\ Len(Split(ret.items[k].description)) = 50
    /\ \E k \in 1..Len(ret.items) :
          /\ ~HasDescription(k)
          /\ ret.items[k].title = "Job"
          /\ FullText(k) = "Job New  Job and one more Job"
          /\ ret.items[k].description = "New Job and one more Job"

\* C27: the sibling walk runs only if the flat scan collected nothing, and
\* the container scan only if both collected nothing, whatever becomes of
\* the collected fragments afterwards: when the flat scan collected only
\* fragments that do not survive, no later method is tried and the result
\* is the "Found heading ... but no content found below it" message.
C27_GatedOnCollected ==
    (IsSectionResult /\ loc.target # 0) =>
        /\ FlatScan(Soup, loc.target) # <<>> =>
              loc.method = 1 /\ loc.collected = FlatScan(Soup, loc.target)
        /\ loc.method = 2 =>
              FlatScan(Soup, loc.target) = <<>> /\ loc.collected = SiblingWalk(Soup, loc.target)
        /\ loc.method = 3 =>
              FlatScan(Soup, loc.target) = <<>> /\ SiblingWalk(Soup, loc.target) = <<>>
        /\ (loc.method = 1 /\ Survivors = <<>>) =>
              /\ loc.exit = "no_content"
              /\ ret = RetStr(NoContentBelow(GetText(Soup, loc.target, "")))

\* The flat scan collected a fragment of at most 10 characters and nothing
\* else, the sibling walk would have collected a longer one, and the
\* result is the message.
C27_Witness ==
    /\ IsSectionResult /\ loc.target # 0
    /\ loc.method = 1
    /\ loc.collected # <<>>
    /\ \A k \in 1..Len(Fragments) : Len(Fragments[k]) <= 10
    /\ \E e \in Range(SiblingWalk(Soup, loc.target)) :
          Len(Join(" ", Split(GetText(Soup, e, " ")))) > 10
    /\ loc.exit = "no_content"

\* C28: the flat scan stops at the first h2/h3 after the target heading,
\* also when that heading has the tag name, attributes and text of the
\* target: nothing it collects lies behind an h2/h3 that follows the
\* target.
C28_StopsAtIdenticalHeading ==
    (IsSectionResult /\ loc.target # 0 /\ loc.method = 1) =>
        \A k \in 1..Len(loc.collected) :
            \A i \in (loc.target + 1)..(loc.collected[k] - 1) : Soup[i].tag \notin {"h2", "h3"}

\* C29: with a section name and no list pattern, when the named section
\* gives no list with a record, the result is that of the same call
\* without the section name: the scoring and the heading fallback go on.
C29_AsWithoutSectionName ==
    (IsListResult /\ call.args[1] # "" /\ call.args[2] = "" /\ SectionRecords = <<>>) =>
        /\ ret = scrape_result_list(page, url, "", "").ret
        /\ ret = ByScore(page, url, BestList(page)).ret

\* A section was named that the page does not have, and the records are
\* those of a list found by scoring.
C29_Witness ==
    /\ IsListResult /\ call.args[1] # "" /\ call.args[2] = ""
    /\ NamedList = 0
    /\ loc.strategy = "scoring"
    /\ ret.type = "list"
    /\ Len(ret.items) >= 3

(***************************************************************************)
(* The response of /api/scrape.                                            *)
(***************************************************************************)
IsRequest == call.op = "scrape"

\* The strings with which the engine says that it extracted nothing.
EngineMessages ==
    { NotFoundText(call.args[3]), NotFoundLinks(call.args[3]), NoCards, CardsNoData,
      "Error: Could not fetch the webpage" }

\* The engine returned at least one extracted item.
ExtractedSome ==
    \/ ret.type = "list" /\ ret.items # <<>>
    \/ ret.type = "str" /\ ret.str \notin EngineMessages

\* C30: the response has success=false exactly when the engine returned
\* no extracted item (a message, an error string, None, nothing) and
\* success=true exactly when it returned at least one; an extracted text
\* is never reported as an error and a message never as an item.
C30_SuccessIffExtracted == IsRequest => (loc.success <=> ExtractedSome)
====
